---- MODULE Spec2Model ----
(***************************************************************************)
(* Retool OpenAI API adapter (retool.ts, config.ts): the account registry, *)
(* agent discovery, the failover selector getBestRetoolAccount and the     *)
(* per-request loop of handleRequest, as a state machine.                  *)
(*                                                                         *)
(* JavaScript runs one handler at a time and switches handlers only at an  *)
(* await, so each action below is the code that runs between two awaits.   *)
(* Time is in milliseconds; Date.now() is the variable now.                *)
(***************************************************************************)
EXTENDS Integers, Sequences, FiniteSets, TLC

VARIABLES
  load,              \* what is explored: chat traffic ("single", "concurrent",
                     \* "live"), model-list traffic ("catalog", "sameorg"), one
                     \* streaming body ("stream"), one prompt ("format") or
                     \* the configuration ("config")
  phase,             \* "discover" while initializeRetoolEnvironment runs, then "serve"
  disc,              \* index of the account whose agent query is awaited
  accounts,          \* RETOOL_ACCOUNTS: health fields of every account
  AVAILABLE_MODELS,  \* the model registry, a sequence of ModelRecord
  now,               \* Date.now()
  ticks,             \* number of clock advances so far
  pc,                \* per request: the await the handler is suspended at
  request,           \* per request: the incoming request
  attempt,           \* per request: loop variable of the account loop
  attemptCount,      \* per request: attemptCount
  collectedErrors,   \* per request: collectedErrors
  acc,               \* per request: the account of the running attempt
  agentId,           \* per request: the agent id captured for the attempt
  deadline,          \* per request: deadline of retoolGetMessage
  wake,              \* per request: end of the 1 s sleep between polls
  response,          \* per request: the Response returned
  tried,             \* history: accounts returned to the request by the selector
  selCalls,          \* history: number of selector calls of the request
  upstreamCalls,     \* history: number of upstream fetches of the request
  started,           \* history: number of requests received so far
  DEBUG_MODE,        \* DEBUG_MODE
  console,           \* what was written to the console: at startup (slot 0)
                     \* and by each request being handled
  cancelled,         \* per request: the client has gone away
  listing,           \* the latest model-list request and its Response
  stream,            \* the ReadableStream of one sseStream call and its producer
  conversation,      \* the messages given to formatMessagesForRetool
  formatted,         \* the text formatMessagesForRetool returned
  env,               \* Deno.env: CLIENT_API_KEYS, RETOOL_ACCOUNTS, DEBUG_MODE
  CONFIG,            \* what loadConfig returned or threw
  returned           \* what parseClientApiKeys and parseRetoolAccounts returned

serverVars == << load, phase, disc, accounts, AVAILABLE_MODELS, now, ticks, pc,
                 request, attempt, attemptCount, collectedErrors, acc, agentId,
                 deadline, wake, response, tried, selCalls, upstreamCalls,
                 started, DEBUG_MODE, console, cancelled, listing >>

configVars == << env, CONFIG, returned >>

utilVars == << stream, conversation, formatted, configVars >>

vars == << serverVars, utilVars >>

----------------------------------------------------------------------------
(* Bounds of the model *)

NumAccs == 2        \* accounts in RETOOL_ACCOUNTS
NumReqs == 2        \* requests that can be in flight at the same time
MaxRequests == 3    \* requests received over the run
MaxFailures == 3    \* failed attempts over the run
MaxTicks == 1       \* clock advances
MaxLiveRequests == 1 \* requests received where progress is checked
MaxCancellable == 1  \* the first requests received are those a client may abandon
MaxDiscoveryFailures == 1  \* agent queries that fail at startup
MaxTextLen == 6      \* length of the completion texts streamed
MaxMessages == 3     \* messages of the conversations formatted
MaxKeysLen == 4      \* characters of CLIENT_API_KEYS
MaxConfigs == 2      \* account configurations in RETOOL_ACCOUNTS
StartTime == 1000000 \* Date.now() at startup (far more than 300000 after 0)

Accs == 1..NumAccs
Reqs == 1..NumReqs
ClockSteps == {1000, 300000}

(* Program constants *)
QUARANTINE_MS == 300000
QUARANTINE_ERRORS == 3
POLL_TIMEOUT_MS == 300000
POLL_INTERVAL_MS == 1000

NoAcc == 0
NoAgent == "undefined"
NoStatus == 0

----------------------------------------------------------------------------
(* The upstream: what each account's /api/agents returns, and the statuses *)
(* a call can fail with.                                                   *)

Agent(i, n, m) == [id |-> i, name |-> n, model |-> m]

\* Each account is a user of one Retool organisation and is answered with
\* the agents of that organisation.  Under the load "sameorg" all accounts
\* are users of the second organisation; otherwise each has its own.
UpstreamAgents(a) ==
  LET org == IF load = "sameorg" THEN 2 ELSE a IN
  CASE org = 1 -> << Agent("g1", "Sonnet A", <<"claude", "sonnet", "4", "v1">>) >>
    [] org = 2 -> << Agent("g3", "GPT B", <<"gpt", "4o">>),
                     Agent("g2", "Sonnet B", <<"claude", "sonnet", "4", "v2">>) >>
    [] org = 3 -> << Agent("g4", "GPT C", <<"gpt", "4o">>) >>
    [] OTHER -> << Agent("g5", "Opus D", <<"claude", "opus", "4", "v1">>) >>

FailStatuses == {401, 403, 500}
AuthStatuses == {401, 403}

\* how one upstream call can end: a 2xx response, a non-2xx response with
\* its status, or an exception that is not a RetoolApiError
Ok == [kind |-> "ok", status |-> 200]
Thrown == [kind |-> "throw", status |-> 0]
Failed(s) == [kind |-> "fail", status |-> s]
CallOutcomes == {Ok, Thrown} \cup { Failed(s) : s \in FailStatuses }

\* Two requests in flight multiply each other's histories, so the model
\* explores two kinds of traffic.  "single": one request at a time, every
\* kind of request and every outcome of an upstream call.  "concurrent":
\* NumReqs overlapping requests, one per slot, all of them well-formed and
\* not streaming, whose upstream calls succeed or fail with a status and whose
\* first poll finds the run completed.
Outcomes ==
  IF load = "concurrent" THEN {Ok, Failed(401), Failed(500)} ELSE CallOutcomes

DomainName(a) == a

\* incoming POST /v1/chat/completions requests: the Authorization header
\* ("ok", "missing" or a token that is not a client key), whether the body
\* parses, the number of messages, the model and the stream flag
\* messages = NullBody: the body parses to null, which has no properties
NullBody == 0 - 1

\* the Authorization header: its first word and the rest, "" for none
Header(scheme, token) == [scheme |-> scheme, token |-> token]
NoHeader == Header("", "")
Headers ==
  { NoHeader, Header("Basic", "key1"), Header("Bearer", ""),
    Header("Bearer", "key1"), Header("bearer", "key1"), Header("Bearer", "other") }

\* CONFIG.clientApiKeys
VALID_CLIENT_KEYS == { "key1" }

Req(au, js, n, m, st) ==
  [auth |-> au, json |-> js, messages |-> n, model |-> m, stream |-> st]

Sonnet4 == <<"claude", "sonnet", "4">>
Gpt4o == <<"gpt", "4o">>

RequestInputs ==
  { Req("missing", TRUE, 1, Sonnet4, FALSE),
    Req("unknown", TRUE, 1, Sonnet4, FALSE),
    Req("ok", FALSE, 1, Sonnet4, FALSE),
    Req("ok", TRUE, 0, Sonnet4, FALSE),
    Req("ok", TRUE, 1, <<"nope">>, FALSE),
    Req("ok", TRUE, NullBody, Sonnet4, FALSE) }
  \cup { Req("ok", TRUE, 1, m, st) : m \in {Sonnet4, Gpt4o}, st \in BOOLEAN }

Requests ==
  IF load # "concurrent" THEN RequestInputs
  ELSE { Req("ok", TRUE, 1, m, FALSE) : m \in {Sonnet4, Gpt4o} }
\* completion texts, as sequences of characters
HelloWorld == << "H", "e", "l", "l", "o", " ", "w", "o", "r", "l", "d" >>
Texts == { HelloWorld }

----------------------------------------------------------------------------
(* config.ts *)

\* A string is the sequence of its characters.  Deno.env.get returns
\* undefined for a variable that is not set.
Undefined == << "undefined" >>

IsSpace(c) == c \in {" ", "\t"}

RECURSIVE trimStart(_)
trimStart(str) ==
  IF str # << >> /\ IsSpace(Head(str)) THEN trimStart(Tail(str)) ELSE str

RECURSIVE trimEnd(_)
trimEnd(str) ==
  IF str # << >> /\ IsSpace(str[Len(str)])
  THEN trimEnd(SubSeq(str, 1, Len(str) - 1)) ELSE str

\* mutant: String.prototype.trimStart in the place of trim
trim_StartOnly(str) == trimStart(str)

\* String.prototype.trim
trim(str) == trimEnd(trimStart(str))

\* str.split(","), item being the characters read since the last comma
RECURSIVE split(_, _)
split(str, item) ==
  IF str = << >> THEN << item >>
  ELSE IF Head(str) = "," THEN << item >> \o split(Tail(str), << >>)
       ELSE split(Tail(str), Append(item, Head(str)))

parseClientApiKeys(input) ==
  IF input = Undefined \/ input = << >> \/ trim(input) = << >> THEN {}
  ELSE LET keys == split(input, << >>)
       IN { k \in { trim(keys[i]) : i \in 1..Len(keys) } : Len(k) > 0 }

\* JSON text as the sequence of its tokens: punctuation, string literals and
\* white space
Punct(v) == [t |-> "punct", v |-> v]
String(v) == [t |-> "string", v |-> v]
Space == [t |-> "space", v |-> " "]
EndOfInput == [t |-> "end", v |-> ""]

UndefinedText == << [t |-> "undefined", v |-> ""] >>

RetoolAccountConfig(domain_name, x_xsrf_token, accessToken) ==
  [domain_name |-> domain_name, x_xsrf_token |-> x_xsrf_token,
   accessToken |-> accessToken]

\* JSON.stringify of an array of RetoolAccountConfig, from element i on
RECURSIVE StringifyFrom(_, _)
StringifyFrom(configs, i) ==
  IF i > Len(configs) THEN << >>
  ELSE (IF i > 1 THEN << Punct(",") >> ELSE << >>)
       \o << Punct("{"),
             String("domain_name"), Punct(":"), String(configs[i].domain_name),
             Punct(","),
             String("x_xsrf_token"), Punct(":"), String(configs[i].x_xsrf_token),
             Punct(","),
             String("accessToken"), Punct(":"), String(configs[i].accessToken),
             Punct("}") >>
       \o StringifyFrom(configs, i + 1)

JSONstringify(configs) ==
  << Punct("[") >> \o StringifyFrom(configs, 1) \o << Punct("]") >>

\* JSON.parse, for texts that hold objects of string members, arrays of
\* such objects, or one string.  An object is the sequence of its members,
\* each << key, value >>.
Parsed(value, next) == [ok |-> TRUE, value |-> value, next |-> next]
SyntaxError == [ok |-> FALSE, value |-> << >>, next |-> 0]

Tok(tokens, i) == IF i <= Len(tokens) THEN tokens[i] ELSE EndOfInput

RECURSIVE ParseMembers(_, _, _)
ParseMembers(tokens, i, obj) ==
  IF /\ Tok(tokens, i).t = "string"
     /\ Tok(tokens, i + 1) = Punct(":")
     /\ Tok(tokens, i + 2).t = "string"
  THEN LET o == Append(obj, << Tok(tokens, i).v, Tok(tokens, i + 2).v >>) IN
       IF Tok(tokens, i + 3) = Punct(",") THEN ParseMembers(tokens, i + 4, o)
       ELSE IF Tok(tokens, i + 3) = Punct("}") THEN Parsed(o, i + 4)
            ELSE SyntaxError
  ELSE SyntaxError

ParseObject(tokens, i) ==
  IF Tok(tokens, i) # Punct("{") THEN SyntaxError
  ELSE IF Tok(tokens, i + 1) = Punct("}") THEN Parsed(<< >>, i + 2)
       ELSE ParseMembers(tokens, i + 1, << >>)

RECURSIVE ParseElements(_, _, _)
ParseElements(tokens, i, arr) ==
  LET r == ParseObject(tokens, i) IN
  IF ~r.ok THEN SyntaxError
  ELSE LET a == Append(arr, r.value) IN
       IF Tok(tokens, r.next) = Punct(",") THEN ParseElements(tokens, r.next + 1, a)
       ELSE IF Tok(tokens, r.next) = Punct("]") THEN Parsed(a, r.next + 1)
            ELSE SyntaxError

\* the value parsed, whether it is an array, and the error thrown ("" for
\* none)
JSONparse(text) ==
  LET tokens == SelectSeq(text, LAMBDA tk : tk.t # "space")
      r == IF Tok(tokens, 1) = Punct("[")
           THEN IF Tok(tokens, 2) = Punct("]") THEN Parsed(<< >>, 3)
                ELSE ParseElements(tokens, 2, << >>)
           ELSE IF Tok(tokens, 1).t = "string" THEN Parsed(<< >>, 2)
                ELSE ParseObject(tokens, 1)
  IN IF r.ok /\ r.next = Len(tokens) + 1
     THEN [thrown |-> "", isArray |-> Tok(tokens, 1) = Punct("["),
           value |-> r.value]
     ELSE [thrown |-> "SyntaxError", isArray |-> FALSE, value |-> << >>]

\* account.domain_name and the like: the last member of that key, or
\* undefined
Member(obj, key) ==
  IF \E i \in 1..Len(obj) : obj[i][1] = key
  THEN LET i == CHOOSE k \in 1..Len(obj) :
                  obj[k][1] = key /\ \A j \in (k + 1)..Len(obj) : obj[j][1] # key
       IN obj[i][2]
  ELSE "undefined"

\* input.trim() === ""
Blank(text) == \A i \in 1..Len(text) : text[i].t = "space"

\* mutant: the two credential tokens exchanged
parseRetoolAccounts_TokensExchanged(input) ==
  IF input = UndefinedText \/ Blank(input) THEN [thrown |-> "", value |-> << >>]
  ELSE LET parsed == JSONparse(input) IN
       IF parsed.thrown # "" THEN [thrown |-> parsed.thrown, value |-> << >>]
       ELSE IF ~parsed.isArray
            THEN [thrown |-> "RETOOL_ACCOUNTS must be a JSON array", value |-> << >>]
            ELSE [thrown |-> "",
                  value |-> [i \in 1..Len(parsed.value) |->
                    [domain_name |-> Member(parsed.value[i], "domain_name"),
                     x_xsrf_token |-> Member(parsed.value[i], "accessToken"),
                     accessToken |-> Member(parsed.value[i], "x_xsrf_token"),
                     is_valid |-> TRUE, last_used |-> 0, error_count |-> 0,
                     agents |-> << >>, selected_agent_id |-> NoAgent]]]

\* the accounts returned and the error thrown ("" for none)
parseRetoolAccounts(input) ==
  IF input = UndefinedText \/ Blank(input) THEN [thrown |-> "", value |-> << >>]
  ELSE LET parsed == JSONparse(input) IN
       IF parsed.thrown # "" THEN [thrown |-> parsed.thrown, value |-> << >>]
       ELSE IF ~parsed.isArray
            THEN [thrown |-> "RETOOL_ACCOUNTS must be a JSON array", value |-> << >>]
            ELSE [thrown |-> "",
                  value |-> [i \in 1..Len(parsed.value) |->
                    [domain_name |-> Member(parsed.value[i], "domain_name"),
                     x_xsrf_token |-> Member(parsed.value[i], "x_xsrf_token"),
                     accessToken |-> Member(parsed.value[i], "accessToken"),
                     is_valid |-> TRUE, last_used |-> 0, error_count |-> 0,
                     agents |-> << >>, selected_agent_id |-> NoAgent]]]

\* String.prototype.toLowerCase, for the letters of "TRUE"
toLowerCase(str) ==
  [i \in 1..Len(str) |->
     CASE str[i] = "T" -> "t" [] str[i] = "R" -> "r"
       [] str[i] = "U" -> "u" [] str[i] = "E" -> "e" [] OTHER -> str[i]]

\* one part of the message of the Error loadConfig throws
ConfigError(variable, text, detail) ==
  [variable |-> variable, text |-> text, detail |-> detail]

\* what loadConfig does: thrown holds the parts of the Error's message,
\* << >> when it returns
ConfigResult(thrown, clientApiKeys, retoolAccounts, debugMode) ==
  [thrown |-> thrown, clientApiKeys |-> clientApiKeys,
   retoolAccounts |-> retoolAccounts, debugMode |-> debugMode]

\* mutant: a CLIENT_API_KEYS without any key accepted
loadConfig_AcceptsNoKey(e) ==
  LET missingVars ==
        (IF e.CLIENT_API_KEYS = Undefined \/ e.CLIENT_API_KEYS = << >>
         THEN << "CLIENT_API_KEYS" >> ELSE << >>)
        \o (IF e.RETOOL_ACCOUNTS = UndefinedText \/ e.RETOOL_ACCOUNTS = << >>
            THEN << "RETOOL_ACCOUNTS" >> ELSE << >>)
  IN IF missingVars # << >>
     THEN ConfigResult(
            [i \in 1..Len(missingVars) |->
               ConfigError(missingVars[i],
                           "Missing required environment variables", "")],
            {}, << >>, FALSE)
     ELSE
       LET clientApiKeys == parseClientApiKeys(e.CLIENT_API_KEYS)
           accountsResult == parseRetoolAccounts(e.RETOOL_ACCOUNTS)
           retoolAccounts == accountsResult.value
           errors ==
             (IF accountsResult.thrown # ""
              THEN << ConfigError("RETOOL_ACCOUNTS", "Failed to parse",
                                  accountsResult.thrown) >>
              ELSE IF Len(retoolAccounts) = 0
                   THEN << ConfigError("RETOOL_ACCOUNTS",
                             "is empty or contains no valid accounts", "") >>
                   ELSE << >>)
       IN IF errors # << >> THEN ConfigResult(errors, {}, << >>, FALSE)
          ELSE ConfigResult(<< >>, clientApiKeys, retoolAccounts,
                 e.DEBUG_MODE # Undefined
                 /\ toLowerCase(e.DEBUG_MODE) = << "t", "r", "u", "e" >>)

loadConfig(e) ==
  LET missingVars ==
        (IF e.CLIENT_API_KEYS = Undefined \/ e.CLIENT_API_KEYS = << >>
         THEN << "CLIENT_API_KEYS" >> ELSE << >>)
        \o (IF e.RETOOL_ACCOUNTS = UndefinedText \/ e.RETOOL_ACCOUNTS = << >>
            THEN << "RETOOL_ACCOUNTS" >> ELSE << >>)
  IN IF missingVars # << >>
     THEN ConfigResult(
            [i \in 1..Len(missingVars) |->
               ConfigError(missingVars[i],
                           "Missing required environment variables", "")],
            {}, << >>, FALSE)
     ELSE
       LET clientApiKeys == parseClientApiKeys(e.CLIENT_API_KEYS)
           accountsResult == parseRetoolAccounts(e.RETOOL_ACCOUNTS)
           retoolAccounts == accountsResult.value
           errors ==
             (IF clientApiKeys = {}
              THEN << ConfigError("CLIENT_API_KEYS",
                        "is empty or contains only whitespace", "") >>
              ELSE << >>)
             \o (IF accountsResult.thrown # ""
                 THEN << ConfigError("RETOOL_ACCOUNTS", "Failed to parse",
                                     accountsResult.thrown) >>
                 ELSE IF Len(retoolAccounts) = 0
                      THEN << ConfigError("RETOOL_ACCOUNTS",
                                "is empty or contains no valid accounts", "") >>
                      ELSE << >>)
       IN IF errors # << >> THEN ConfigResult(errors, {}, << >>, FALSE)
          ELSE ConfigResult(<< >>, clientApiKeys, retoolAccounts,
                 e.DEBUG_MODE # Undefined
                 /\ toLowerCase(e.DEBUG_MODE) = << "t", "r", "u", "e" >>)

\* the RETOOL_ACCOUNTS the server was started with: NumAccs accounts
ServerDomain(a) ==
  CASE a = 1 -> "one.retool.com"
    [] a = 2 -> "two.retool.com"
    [] a = 3 -> "three.retool.com"
    [] OTHER -> "four.retool.com"

ServerAccounts ==
  JSONstringify([a \in Accs |->
                  RetoolAccountConfig(ServerDomain(a), "xsrf", "access")])

createRetoolError(operation, account, message, statusCode) ==
  [operation |-> operation, account |-> account, statusCode |-> statusCode,
   message |-> message, timestamp |-> now]

\* createErrorResponse reporting the last error only
createErrorResponse_LastErrorOnly(attempts, errors) ==
  [error |-> [message |-> "All Retool accounts failed",
              type |-> "upstream_error",
              attempts |-> attempts,
              details |-> IF errors = << >> THEN << >>
                          ELSE << errors[Len(errors)] >>]]

createErrorResponse(attempts, errors) ==
  [error |-> [message |-> "All Retool accounts failed",
              type |-> "upstream_error",
              attempts |-> attempts,
              details |-> errors]]

----------------------------------------------------------------------------
(* Model discovery: the aggregation of initializeRetoolEnvironment *)

Min(a, b) == IF a < b THEN a ELSE b

\* mutant: the series cut after two segments
Series_TwoSegments(fullName) == SubSeq(fullName, 1, Min(2, Len(fullName)))

\* fullName.split("-").slice(0, 3).join("-"), a name being the sequence of
\* its hyphen-separated segments
Series(fullName) == SubSeq(fullName, 1, Min(3, Len(fullName)))

OwnedBy(fullName) ==
  IF \E i \in 1..Len(fullName) : fullName[i] = "claude"
  THEN "anthropic" ELSE "openai"

RECURSIVE AllAgents(_, _)
AllAgents(accs, a) ==
  IF a > NumAccs THEN << >> ELSE accs[a].agents \o AllAgents(accs, a + 1)

IndexOfModel(models, id) ==
  IF \E i \in 1..Len(models) : models[i].id = id
  THEN CHOOSE i \in 1..Len(models) :
         models[i].id = id /\ \A j \in 1..(i - 1) : models[j].id # id
  ELSE 0

\* mutant: the agent that opens a record is not added to it
RECURSIVE AggregateAgents_FirstAgentDropped(_, _)
AggregateAgents_FirstAgentDropped(list, map) ==
  IF list = << >> THEN map
  ELSE LET ag == Head(list)
           series == Series(ag.model)
           i == IndexOfModel(map, series)
       IN IF i = 0
          THEN AggregateAgents_FirstAgentDropped(Tail(list),
                 Append(map, [id |-> series, name |-> ag.name,
                              model_name |-> ag.model,
                              owned_by |-> OwnedBy(ag.model),
                              agents |-> << >>]))
          ELSE AggregateAgents_FirstAgentDropped(Tail(list),
                 [map EXCEPT ![i].agents = Append(@, ag.id)])

\* the second loop of initializeRetoolEnvironment over the agents of all
\* accounts, map being the Map built so far
RECURSIVE AggregateAgents(_, _)
AggregateAgents(list, map) ==
  IF list = << >> THEN map
  ELSE LET ag == Head(list)
           series == Series(ag.model)
           i == IndexOfModel(map, series)
       IN IF i = 0
          THEN AggregateAgents(Tail(list),
                 Append(map, [id |-> series, name |-> ag.name,
                              model_name |-> ag.model,
                              owned_by |-> OwnedBy(ag.model),
                              agents |-> << ag.id >>]))
          ELSE AggregateAgents(Tail(list),
                 [map EXCEPT ![i].agents = Append(@, ag.id)])

----------------------------------------------------------------------------
(* getBestRetoolAccount *)

InSeq(x, s) == \E i \in 1..Len(s) : s[i] = x

\* mutant: the first agent of the model, whichever account owns it
FindAgent_FirstAllowed(ac, allowed) ==
  IF \E i \in 1..Len(ac.agents) : InSeq(ac.agents[i].id, allowed)
  THEN allowed[1]
  ELSE NoAgent

\* acc.agents.find((a) => allowed.includes(a.id))
FindAgent(ac, allowed) ==
  IF \E i \in 1..Len(ac.agents) : InSeq(ac.agents[i].id, allowed)
  THEN LET i == CHOOSE k \in 1..Len(ac.agents) :
                  /\ InSeq(ac.agents[k].id, allowed)
                  /\ \A j \in 1..(k - 1) : ~InSeq(ac.agents[j].id, allowed)
       IN ac.agents[i].id
  ELSE NoAgent

\* mutant: no quarantine
Quarantined_Never(ac, t) == FALSE

\* the quarantine lasting one millisecond longer
Quarantined_Inclusive(ac, t) ==
  ac.error_count >= QUARANTINE_ERRORS /\ t - ac.last_used <= QUARANTINE_MS

\* mutant: the quarantine starting at the fourth failure
Quarantined_FromFourErrors(ac, t) ==
  ac.error_count > QUARANTINE_ERRORS /\ t - ac.last_used < QUARANTINE_MS

Quarantined(ac, t) ==
  ac.error_count >= QUARANTINE_ERRORS /\ t - ac.last_used < QUARANTINE_MS

\* the filter without its is_valid test
IsCandidate_AnyValidity(ac, allowed, t) ==
  /\ ~Quarantined(ac, t)
  /\ FindAgent(ac, allowed) # NoAgent

IsCandidate(ac, allowed, t) ==
  /\ ac.is_valid
  /\ ~Quarantined(ac, t)
  /\ FindAgent(ac, allowed) # NoAgent

\* mutant: the comparator without its second key
Compare_LastUsedOnly(x, y) == x.last_used - y.last_used

\* the comparator of candidates.sort
Compare(x, y) ==
  IF x.last_used - y.last_used # 0
  THEN x.last_used - y.last_used
  ELSE x.error_count - y.error_count

\* candidates[0] after the (stable) sort of the filtered accounts
FirstSorted(accs, cands) ==
  CHOOSE c \in cands :
    /\ \A d \in cands : Compare(accs[d], accs[c]) >= 0
    /\ \A d \in cands : (Compare(accs[d], accs[c]) = 0) => c <= d

\* mutant: the selection leaves last_used as it was
getBestRetoolAccount_KeepsLastUsed(accs, models, modelId, t) ==
  LET i == IndexOfModel(models, modelId) IN
  IF i = 0 THEN [chosen |-> NoAcc, accounts |-> accs]
  ELSE
    LET allowed == models[i].agents
        cands == { a \in Accs : IsCandidate(accs[a], allowed, t) }
        filtered == [a \in Accs |->
                       IF a \in cands
                       THEN [accs[a] EXCEPT
                               !.selected_agent_id = FindAgent(accs[a], allowed)]
                       ELSE accs[a]]
    IN IF cands = {} THEN [chosen |-> NoAcc, accounts |-> accs]
       ELSE [chosen |-> FirstSorted(filtered, cands), accounts |-> filtered]

\* mutant: the selection clears the error count of the account it returns
getBestRetoolAccount_ResetsErrors(accs, models, modelId, t) ==
  LET i == IndexOfModel(models, modelId) IN
  IF i = 0 THEN [chosen |-> NoAcc, accounts |-> accs]
  ELSE
    LET allowed == models[i].agents
        cands == { a \in Accs : IsCandidate(accs[a], allowed, t) }
        filtered == [a \in Accs |->
                       IF a \in cands
                       THEN [accs[a] EXCEPT
                               !.selected_agent_id = FindAgent(accs[a], allowed)]
                       ELSE accs[a]]
    IN IF cands = {} THEN [chosen |-> NoAcc, accounts |-> accs]
       ELSE LET chosen == FirstSorted(filtered, cands)
            IN [chosen |-> chosen,
                accounts |-> [filtered EXCEPT ![chosen].last_used = t,
                                              ![chosen].error_count = 0]]

getBestRetoolAccount(accs, models, modelId, t) ==
  LET i == IndexOfModel(models, modelId) IN
  IF i = 0 THEN [chosen |-> NoAcc, accounts |-> accs]
  ELSE
    LET allowed == models[i].agents
        cands == { a \in Accs : IsCandidate(accs[a], allowed, t) }
        filtered == [a \in Accs |->
                       IF a \in cands
                       THEN [accs[a] EXCEPT
                               !.selected_agent_id = FindAgent(accs[a], allowed)]
                       ELSE accs[a]]
    IN IF cands = {} THEN [chosen |-> NoAcc, accounts |-> accs]
       ELSE LET chosen == FirstSorted(filtered, cands)
            IN [chosen |-> chosen,
                accounts |-> [filtered EXCEPT ![chosen].last_used = t]]

----------------------------------------------------------------------------
(* The console *)

LogEntry(level, text, account) ==
  [level |-> level, text |-> text, account |-> account]

\* logRetoolError(error)
logRetoolError(error) ==
  << LogEntry("error", "Retool API failed", error.account) >>

\* logDebug(msg)
logDebug(text, account) ==
  IF DEBUG_MODE THEN << LogEntry("debug", text, account) >> ELSE << >>

MarkedInvalid(account) ==
  << LogEntry("error", "marked as invalid due to authentication error", account) >>

----------------------------------------------------------------------------
(* Responses *)

NoRequest == Req("none", FALSE, 0, << >>, FALSE)

NoResponse == [kind |-> "none", status |-> 0, body |-> << >>]

NoListing == [path |-> "", header |-> NoHeader, response |-> NoResponse]

\* what std/http's serve answers when the handler throws
InternalServerError ==
  [kind |-> "text", status |-> 500, body |-> [error |-> "Internal Server Error"]]

jsonResponse(obj, status) == [kind |-> "json", status |-> status, body |-> obj]

sseStream(gen) == [kind |-> "sse", status |-> 200, body |-> gen]

retoolStreamGenerator(fullMessage, modelId) ==
  [gen |-> "retoolStreamGenerator", text |-> fullMessage, model |-> modelId]

errorStreamGenerator(msg) ==
  [gen |-> "errorStreamGenerator", message |-> msg, code |-> 503]

\* One SSE event, "data: <json>\n\n" or "data: [DONE]\n\n": what its JSON
\* carries.  type is "role", "content", "stop", "error" or "done".
Frame(type, content, message, code) ==
  [type |-> type, content |-> content, message |-> message, code |-> code]

RoleFrame == Frame("role", << >>, "", 0)
ContentFrame(part) == Frame("content", part, "", 0)
StopFrame == Frame("stop", << >>, "", 0)
ErrorFrame(msg, code) == Frame("error", << >>, msg, code)
DoneMarker == Frame("done", << >>, "", 0)

chunkSize == 5

\* mutant: a slice that runs to the end of the string
slice_ToEnd(str, from, to) == SubSeq(str, from + 1, Len(str))

\* String.prototype.slice(from, to) for 0 <= from <= to
slice(str, from, to) == SubSeq(str, from + 1, Min(to, Len(str)))

\* the loop `for (i = 0; i < fullMessage.length; i += chunkSize)`: one chunk
\* with one content frame per pass
RECURSIVE ContentChunks(_, _)
ContentChunks(fullMessage, i) ==
  IF i < Len(fullMessage)
  THEN << << ContentFrame(slice(fullMessage, i, i + chunkSize)) >> >>
       \o ContentChunks(fullMessage, i + chunkSize)
  ELSE << >>

\* the strings a generator yields, in order, each as the frames it holds
\* mutant: errorStreamGenerator without its second yield
Chunks_ErrorWithoutDone(gen) ==
  IF gen.gen = "errorStreamGenerator"
  THEN << << ErrorFrame(gen.message, gen.code) >> >>
  ELSE << << RoleFrame >> >> \o ContentChunks(gen.text, 0)
       \o << << StopFrame, DoneMarker >> >>

Chunks(gen) ==
  IF gen.gen = "errorStreamGenerator"
  THEN << << ErrorFrame(gen.message, gen.code) >>, << DoneMarker >> >>
  ELSE << << RoleFrame >> >> \o ContentChunks(gen.text, 0)
       \o << << StopFrame, DoneMarker >> >>

RECURSIVE Flatten(_)
Flatten(chunks) ==
  IF chunks = << >> THEN << >> ELSE Head(chunks) \o Flatten(Tail(chunks))

\* what sseStream enqueues when the whole generator is drained
Frames(gen) == Flatten(Chunks(gen))

ChatCompletion(modelId, responseTxt) ==
  [object |-> "chat.completion", model |-> modelId,
   message |-> [role |-> "assistant", content |-> responseTxt],
   finish_reason |-> "stop",
   usage |-> [prompt_tokens |-> 0, completion_tokens |-> 0, total_tokens |-> 0]]

----------------------------------------------------------------------------
(* Utility logic: the body of a streaming response and the prompt text *)

\* completion texts: every text of two letters up to MaxTextLen and the
\* eleven characters of "Hello world"
StreamTexts ==
  UNION { [1..n -> {"a", "b"}] : n \in 0..MaxTextLen } \cup { HelloWorld }

StreamGens ==
  { retoolStreamGenerator(t, Sonnet4) : t \in StreamTexts }
  \cup { errorStreamGenerator("all retool attempts failed") }

\* new ReadableStream({ start }) of sseStream, with the loop of start():
\*   state           "readable" or "closed", as the Streams standard has it
\*   closeRequested  ctrl.close() was accepted
\*   cancelled       the consumer called cancel()
\*   queue           chunks enqueued and not yet read
\*   enqueued        history: every chunk ctrl.enqueue accepted
\*   received        history: the chunks the consumer read
\*   yielded         number of chunks the generator has yielded
\*   pump            the loop of start(): "unstarted", "running" or "done"
\*   streamId        the generator's constant streamId, "" before it runs
\*   created         the generator's constant created, 0 before it runs
\*   headers         history: the id and created written into the JSON
\*                   document of every chunk ctrl.enqueue accepted
ReadableStream(gen) ==
  [gen |-> gen, state |-> "readable", closeRequested |-> FALSE,
   cancelled |-> FALSE, queue |-> << >>, enqueued |-> << >>,
   received |-> << >>, yielded |-> 0, pump |-> "unstarted",
   streamId |-> "", created |-> 0, headers |-> << >>]

\* what crypto.randomUUID() can return
UUIDs == {"uuid-1", "uuid-2"}

\* mutant: created computed anew for every JSON document
EventHeader_CreatedAtYield(s) ==
  IF s.gen.gen = "retoolStreamGenerator"
  THEN [id |-> s.streamId, created |-> now \div 1000]
  ELSE [id |-> "", created |-> 0]

\* `id: streamId` and `created` of the JSON documents of
\* retoolStreamGenerator; the document of errorStreamGenerator has neither
EventHeader(s) ==
  IF s.gen.gen = "retoolStreamGenerator"
  THEN [id |-> s.streamId, created |-> s.created]
  ELSE [id |-> "", created |-> 0]

NoStream == ReadableStream([gen |-> "none"])

\* ReadableStreamDefaultControllerCanCloseOrEnqueue: ctrl.enqueue and
\* ctrl.close throw a TypeError when it is false
\* mutant: a controller that accepts chunks whatever the state of the stream
CanCloseOrEnqueue_Always(s) == TRUE

CanCloseOrEnqueue(s) == s.state = "readable" /\ ~s.closeRequested

ChatMessage(role, content) == [role |-> role, content |-> content]

Hi == << "H", "i" >>
Hello == << "H", "e", "l", "l", "o" >>

Messages ==
  { ChatMessage(role, content) :
      role \in {"user", "assistant", "system"}, content \in {<< >>, Hi, Hello} }

\* handleRequest passes a list that is not empty; formatMessagesForRetool
\* itself also takes the empty one
Conversations == UNION { [1..n -> Messages] : n \in 0..MaxMessages }

\* `\n\n${role}: `
TurnPrefix(role) ==
  << "\n", "\n" >>
  \o (IF role = "Human" THEN << "H", "u", "m", "a", "n" >>
      ELSE << "A", "s", "s", "i", "s", "t", "a", "n", "t" >>)
  \o << ":", " " >>

\* the loop `for (const m of messages)`, from message i on
RECURSIVE FormatTurns(_, _)
FormatTurns(messages, i) ==
  IF i > Len(messages) THEN << >>
  ELSE LET m == messages[i]
           role == IF m.role = "user" THEN "Human" ELSE "Assistant"
       IN TurnPrefix(role) \o m.content \o FormatTurns(messages, i + 1)

\* mutant: the prompt for the next user message after any final message
formatMessagesForRetool_MarkerAlways(messages) ==
  LET out == FormatTurns(messages, 1) IN
  IF Len(messages) # 0 THEN out \o TurnPrefix("Human") ELSE out

\* mutant: no prompt for the next user message
formatMessagesForRetool_NoMarker(messages) == FormatTurns(messages, 1)

formatMessagesForRetool(messages) ==
  LET out == FormatTurns(messages, 1) IN
  IF Len(messages) # 0 /\ messages[Len(messages)].role = "assistant"
  THEN out \o TurnPrefix("Human")
  ELSE out

\* before formatMessagesForRetool has returned
NoText == << "" >>

\* values of CLIENT_API_KEYS: every text of at most MaxKeysLen characters
\* out of two letters, the comma, the blank and the tab
KeyTexts ==
  UNION { [1..n -> {"a", "b", ",", " ", "\t"}] : n \in 0..MaxKeysLen }

FewKeyTexts ==
  { Undefined, << >>, << " " >>, << "," >>, << "a" >>, << "a", ",", " ", "b" >> }

ConfigInputs ==
  { RetoolAccountConfig("a.retool.com", "x1", "t1"),
    RetoolAccountConfig("b.retool.com", "x2", "t2"),
    RetoolAccountConfig("a.retool.com", "t1", "x1") }

ConfigArrays == UNION { [1..n -> ConfigInputs] : n \in 0..MaxConfigs }

\* values of RETOOL_ACCOUNTS: arrays of account configurations as
\* JSON.stringify writes them, the same after a blank, cut short, and texts
\* that are not an array or not there at all
AccountTexts ==
  { JSONstringify(configs) : configs \in ConfigArrays }
  \cup { << Space >> \o JSONstringify(configs) : configs \in ConfigArrays }
  \cup { SubSeq(JSONstringify(configs), 1, Len(JSONstringify(configs)) - 1) :
           configs \in ConfigArrays }
  \cup { UndefinedText, << >>, << Space >>,
         << Punct("{"), Punct("}") >>,
         << String("accounts") >>,
         << Punct("{"), String("domain_name"), Punct(":"),
            String("a.retool.com"), Punct("}") >>,
         << Punct("["), Punct("{"), String("domain_name"), Punct(":"),
            String("a.retool.com"), Punct("}"), Punct("]") >> }

DebugTexts ==
  { Undefined, << >>, << "t", "r", "u", "e" >>, << "T", "R", "U", "E" >>,
    << "T", "r", "u", "e" >>, << "f", "a", "l", "s", "e" >>, << "1" >> }

Environment(keys, accs, debug) ==
  [CLIENT_API_KEYS |-> keys, RETOOL_ACCOUNTS |-> accs, DEBUG_MODE |-> debug]

Environments ==
  { Environment(keys, JSONstringify(<< RetoolAccountConfig("a.retool.com", "x1", "t1") >>),
                Undefined) : keys \in KeyTexts }
  \cup { Environment(keys, accs, debug) :
           keys \in FewKeyTexts, accs \in AccountTexts, debug \in DebugTexts }

NoEnv == Environment(Undefined, UndefinedText, Undefined)

NotLoaded == [called |-> FALSE, result |-> ConfigResult(<< >>, {}, << >>, FALSE)]

NotParsed ==
  [keysCalled |-> FALSE, keys |-> {},
   accountsCalled |-> FALSE, accounts |-> [thrown |-> "", value |-> << >>]]

NoConfig ==
  /\ env = NoEnv
  /\ CONFIG = NotLoaded
  /\ returned = NotParsed

NoUtility ==
  /\ stream = NoStream
  /\ conversation = << >>
  /\ formatted = NoText
  /\ NoConfig

----------------------------------------------------------------------------
Start(profiles) ==
  /\ load \in profiles
  /\ phase = "discover"
  /\ disc = 1
  /\ accounts = parseRetoolAccounts(ServerAccounts).value
  /\ AVAILABLE_MODELS = << >>
  /\ now = StartTime
  /\ ticks = 0
  /\ pc = [r \in Reqs |-> "idle"]
  /\ request = [r \in Reqs |-> NoRequest]
  /\ attempt = [r \in Reqs |-> 0]
  /\ attemptCount = [r \in Reqs |-> 0]
  /\ collectedErrors = [r \in Reqs |-> << >>]
  /\ acc = [r \in Reqs |-> NoAcc]
  /\ agentId = [r \in Reqs |-> NoAgent]
  /\ deadline = [r \in Reqs |-> 0]
  /\ wake = [r \in Reqs |-> 0]
  /\ response = [r \in Reqs |-> NoResponse]
  /\ tried = [r \in Reqs |-> << >>]
  /\ selCalls = [r \in Reqs |-> 0]
  /\ upstreamCalls = [r \in Reqs |-> 0]
  /\ started = 0
  /\ console = [i \in 0..NumReqs |-> << >>]
  /\ cancelled = [r \in Reqs |-> FALSE]
  /\ listing = NoListing

\* "single" and "concurrent" are chat traffic, "catalog" and "sameorg" are
\* startup followed by model-list traffic.  DEBUG_MODE is CONFIG.debugMode; chat traffic is
\* explored with the debug log off.
Init ==
  /\ Start({"single", "concurrent", "catalog", "sameorg"})
  /\ DEBUG_MODE \in BOOLEAN
  /\ DEBUG_MODE => load = "catalog"
  /\ NoUtility

reqVars == << pc, request, attempt, attemptCount, collectedErrors, acc, agentId,
              deadline, wake, response, tried, selCalls, upstreamCalls, started,
              cancelled >>

----------------------------------------------------------------------------
(* initializeRetoolEnvironment: one agent query per account, in order; the *)
(* aggregation runs in the same turn as the last query's outcome.          *)

\* mutant: every failed agent query invalidates the account
AfterQuery_InvalidatesOnAnyFailure(a, ac, outcome) ==
  IF outcome.kind = "ok" THEN [ac EXCEPT !.agents = UpstreamAgents(a)]
  ELSE [ac EXCEPT !.agents = << >>, !.is_valid = FALSE]

\* the outcome of retoolQueryAgents(acc) in the try/catch of the first loop
AfterQuery(a, ac, outcome) ==
  IF outcome.kind = "ok" THEN [ac EXCEPT !.agents = UpstreamAgents(a)]
  ELSE IF outcome.kind = "fail" /\ outcome.status \in AuthStatuses
       THEN [ac EXCEPT !.agents = << >>, !.is_valid = FALSE]
       ELSE [ac EXCEPT !.agents = << >>]

\* what one agent query writes to the console
QueryLog(a, outcome) ==
  CASE outcome.kind = "ok" -> logDebug("agents", DomainName(a))
    [] outcome.kind = "throw" -> << >>
    [] outcome.kind = "fail" ->
         logRetoolError(createRetoolError("agent_query", DomainName(a),
                                          "Agent query failed", outcome.status))
         \o (IF outcome.status \in AuthStatuses
             THEN MarkedInvalid(DomainName(a)) ELSE << >>)

\* agent queries that have failed so far (every upstream list is non-empty)
FailedQueries ==
  Cardinality({ b \in 1..(disc - 1) : accounts[b].agents = << >> })

QueryAgents(a) ==
  /\ phase = "discover"
  /\ disc = a
  /\ \E outcome \in Outcomes :
       /\ outcome.kind # "ok" => FailedQueries < MaxDiscoveryFailures
       /\ LET accs == [accounts EXCEPT ![a] = AfterQuery(a, @, outcome)] IN
            /\ accounts' = accs
            /\ console' = [console EXCEPT ![0] = @ \o QueryLog(a, outcome) \o
                             (IF a = NumAccs
                              THEN << LogEntry("log", "Loaded model families", 0) >>
                              ELSE << >>)]
            /\ IF a = NumAccs
               THEN /\ AVAILABLE_MODELS' =
                         AggregateAgents(AllAgents(accs, 1), << >>)
                    /\ phase' = "serve"
                    /\ disc' = disc
               ELSE /\ disc' = a + 1
                    /\ UNCHANGED << AVAILABLE_MODELS, phase >>
  /\ UNCHANGED << utilVars, DEBUG_MODE, listing, load, now, ticks >>
  /\ UNCHANGED reqVars

(* The clock *)
Tick ==
  /\ phase = "serve"
  /\ ticks < MaxTicks
  /\ \E d \in ClockSteps : now' = now + d
  /\ ticks' = ticks + 1
  /\ UNCHANGED << utilVars, DEBUG_MODE, listing, load, phase, disc, accounts, AVAILABLE_MODELS >>
  /\ UNCHANGED << reqVars, console >>

----------------------------------------------------------------------------
(* handleRequest, POST /v1/chat/completions *)

Respond(r, resp) ==
  /\ pc' = [pc EXCEPT ![r] = "done"]
  /\ response' = [response EXCEPT ![r] = resp]

\* the code after the account loop
Exhausted(r, errs, cnt) ==
  Respond(r, IF request[r].stream
             THEN sseStream(errorStreamGenerator("all retool attempts failed"))
             ELSE jsonResponse(createErrorResponse(cnt, errs), 503))

\* mutant: the account loop running one pass more
Iterate_OnePassMore(r, accs, att, errs) ==
  /\ collectedErrors' = [collectedErrors EXCEPT ![r] = errs]
  /\ attempt' = [attempt EXCEPT ![r] = att]
  /\ deadline' = [deadline EXCEPT ![r] = 0]
  /\ wake' = [wake EXCEPT ![r] = 0]
  /\ UNCHANGED << request, started >>
  /\ IF att <= NumAccs
     THEN LET g == getBestRetoolAccount(accs, AVAILABLE_MODELS,
                                        request[r].model, now) IN
          /\ selCalls' = [selCalls EXCEPT ![r] = @ + 1]
          /\ accounts' = g.accounts
          /\ IF g.chosen = NoAcc
             THEN /\ Exhausted(r, errs, attemptCount[r])
                  /\ UNCHANGED << attemptCount, acc, agentId, tried, upstreamCalls >>
             ELSE /\ attemptCount' = [attemptCount EXCEPT ![r] = @ + 1]
                  /\ acc' = [acc EXCEPT ![r] = g.chosen]
                  /\ agentId' = [agentId EXCEPT ![r] =
                                   g.accounts[g.chosen].selected_agent_id]
                  /\ tried' = [tried EXCEPT ![r] = Append(@, g.chosen)]
                  /\ upstreamCalls' = [upstreamCalls EXCEPT ![r] = @ + 1]
                  /\ pc' = [pc EXCEPT ![r] = "thread"]
                  /\ UNCHANGED response
     ELSE /\ accounts' = accs
          /\ Exhausted(r, errs, attemptCount[r])
          /\ UNCHANGED << attemptCount, acc, agentId, tried, selCalls, upstreamCalls >>

\* One pass from the loop condition `attempt < RETOOL_ACCOUNTS.length` to the
\* next await (the fetch of retoolGetThreadId) or to the response.
\* accs, att, errs: accounts, attempt and collectedErrors at the loop condition.
Iterate(r, accs, att, errs) ==
  /\ collectedErrors' = [collectedErrors EXCEPT ![r] = errs]
  /\ attempt' = [attempt EXCEPT ![r] = att]
  /\ deadline' = [deadline EXCEPT ![r] = 0]
  /\ wake' = [wake EXCEPT ![r] = 0]
  /\ UNCHANGED << request, started >>
  /\ IF att < NumAccs
     THEN LET g == getBestRetoolAccount(accs, AVAILABLE_MODELS,
                                        request[r].model, now) IN
          /\ selCalls' = [selCalls EXCEPT ![r] = @ + 1]
          /\ accounts' = g.accounts
          /\ IF g.chosen = NoAcc
             THEN /\ Exhausted(r, errs, attemptCount[r])
                  /\ UNCHANGED << attemptCount, acc, agentId, tried, upstreamCalls >>
             ELSE /\ attemptCount' = [attemptCount EXCEPT ![r] = @ + 1]
                  /\ acc' = [acc EXCEPT ![r] = g.chosen]
                  /\ agentId' = [agentId EXCEPT ![r] =
                                   g.accounts[g.chosen].selected_agent_id]
                  /\ tried' = [tried EXCEPT ![r] = Append(@, g.chosen)]
                  /\ upstreamCalls' = [upstreamCalls EXCEPT ![r] = @ + 1]
                  /\ pc' = [pc EXCEPT ![r] = "thread"]
                  /\ UNCHANGED response
     ELSE /\ accounts' = accs
          /\ Exhausted(r, errs, attemptCount[r])
          /\ UNCHANGED << attemptCount, acc, agentId, tried, selCalls, upstreamCalls >>

\* failed attempts so far: every failed attempt raises one error_count
RECURSIVE SumErrorCount(_, _)
SumErrorCount(accs, a) ==
  IF a > NumAccs THEN 0 ELSE accs[a].error_count + SumErrorCount(accs, a + 1)

MayFail == SumErrorCount(accounts, 1) < MaxFailures

\* what a failed attempt writes to the console: the session step logs the
\* RetoolError it throws, the catch block the rest
CatchLog(r, err, isRetoolApiError) ==
  (IF isRetoolApiError THEN logRetoolError(err) ELSE << >>)
  \o logDebug("account failed", DomainName(acc[r]))
  \o (IF isRetoolApiError /\ err.statusCode \in AuthStatuses
      THEN MarkedInvalid(DomainName(acc[r])) ELSE << >>)

\* the catch block without the authentication test
Catch_NeverInvalidates(r, err, isRetoolApiError) ==
  LET a == acc[r]
      accs == [accounts EXCEPT ![a].error_count = @ + 1]
  IN /\ Iterate(r, accs, attempt[r] + 1, Append(collectedErrors[r], err))
     /\ console' = [console EXCEPT ![r] = @ \o CatchLog(r, err, isRetoolApiError)]

\* the catch block invalidating on every RetoolApiError
Catch_InvalidatesOnAnyStatus(r, err, isRetoolApiError) ==
  LET a == acc[r]
      accs == [accounts EXCEPT ![a].error_count = @ + 1,
                               ![a].is_valid = IF isRetoolApiError THEN FALSE ELSE @]
  IN /\ Iterate(r, accs, attempt[r] + 1, Append(collectedErrors[r], err))
     /\ console' = [console EXCEPT ![r] = @ \o CatchLog(r, err, isRetoolApiError)]

\* the catch block without its else branch
Catch_DropsUnexpected(r, err, isRetoolApiError) ==
  LET a == acc[r]
      auth == isRetoolApiError /\ err.statusCode \in AuthStatuses
      accs == [accounts EXCEPT ![a].error_count = @ + 1,
                               ![a].is_valid = IF auth THEN FALSE ELSE @]
  IN /\ Iterate(r, accs, attempt[r] + 1,
                IF isRetoolApiError THEN Append(collectedErrors[r], err)
                ELSE collectedErrors[r])
     /\ console' = [console EXCEPT ![r] = @ \o CatchLog(r, err, isRetoolApiError)]

\* mutant: the catch block giving the failed account back as never used
Catch_ClearsLastUsed(r, err, isRetoolApiError) ==
  LET a == acc[r]
      auth == isRetoolApiError /\ err.statusCode \in AuthStatuses
      accs == [accounts EXCEPT ![a].error_count = @ + 1,
                               ![a].last_used = 0,
                               ![a].is_valid = IF auth THEN FALSE ELSE @]
  IN /\ Iterate(r, accs, attempt[r] + 1, Append(collectedErrors[r], err))
     /\ console' = [console EXCEPT ![r] = @ \o CatchLog(r, err, isRetoolApiError)]

\* mutant: error_count raised for a RetoolApiError only
Catch_CountsApiErrorsOnly(r, err, isRetoolApiError) ==
  LET a == acc[r]
      auth == isRetoolApiError /\ err.statusCode \in AuthStatuses
      accs == [accounts EXCEPT ![a].error_count =
                                 IF isRetoolApiError THEN @ + 1 ELSE @,
                               ![a].is_valid = IF auth THEN FALSE ELSE @]
  IN /\ Iterate(r, accs, attempt[r] + 1, Append(collectedErrors[r], err))
     /\ console' = [console EXCEPT ![r] = @ \o CatchLog(r, err, isRetoolApiError)]

\* the catch block of the account loop, then ++attempt and the next pass
Catch(r, err, isRetoolApiError) ==
  LET a == acc[r]
      auth == isRetoolApiError /\ err.statusCode \in AuthStatuses
      accs == [accounts EXCEPT ![a].error_count = @ + 1,
                               ![a].is_valid = IF auth THEN FALSE ELSE @]
  IN /\ Iterate(r, accs, attempt[r] + 1, Append(collectedErrors[r], err))
     /\ console' = [console EXCEPT ![r] = @ \o CatchLog(r, err, isRetoolApiError)]

\* an exception that is not a RetoolApiError (fetch rejected, body not JSON, ...)
GenericError(r) ==
  createRetoolError("message_send", DomainName(acc[r]), "network error", NoStatus)

\* A request arrives (the locals of the handler are fresh): requireAuth,
\* then the handler awaits req.json()
Receive(r) ==
  /\ phase = "serve"
  /\ load \notin {"catalog", "sameorg"}
  /\ pc[r] \in {"idle", "done"}
  /\ started < MaxRequests
  /\ load = "live" => started < MaxLiveRequests
  /\ IF load = "concurrent"
     THEN pc[r] = "idle"
     ELSE \A q \in Reqs \ {r} : pc[q] = "idle"
  /\ started' = started + 1
  /\ \E rq \in Requests :
       /\ request' = [request EXCEPT ![r] = rq]
       /\ IF rq.auth = "ok"
          THEN /\ pc' = [pc EXCEPT ![r] = "body"]
               /\ response' = [response EXCEPT ![r] = NoResponse]
          ELSE Respond(r, jsonResponse([error |-> "unauthorized"],
                                       IF rq.auth = "unknown" THEN 403 ELSE 401))
  /\ attempt' = [attempt EXCEPT ![r] = 0]
  /\ attemptCount' = [attemptCount EXCEPT ![r] = 0]
  /\ collectedErrors' = [collectedErrors EXCEPT ![r] = << >>]
  /\ acc' = [acc EXCEPT ![r] = NoAcc]
  /\ agentId' = [agentId EXCEPT ![r] = NoAgent]
  /\ tried' = [tried EXCEPT ![r] = << >>]
  /\ selCalls' = [selCalls EXCEPT ![r] = 0]
  /\ upstreamCalls' = [upstreamCalls EXCEPT ![r] = 0]
  /\ console' = [console EXCEPT ![r] = << >>]
  /\ cancelled' = [cancelled EXCEPT ![r] = FALSE]
  /\ UNCHANGED << utilVars, DEBUG_MODE, listing, load, phase, disc, accounts, AVAILABLE_MODELS, now, ticks,
                  deadline, wake >>

\* the body arrived: validation, and the first pass of the account loop
ParseBody(r) ==
  /\ pc[r] = "body"
  /\ UNCHANGED << utilVars, DEBUG_MODE, listing, load, phase, disc, AVAILABLE_MODELS, now, ticks,
                  cancelled >>
  /\ IF ~request[r].json
     THEN /\ Respond(r, jsonResponse([error |-> "invalid json"], 400))
          /\ UNCHANGED << accounts, request, attempt, attemptCount,
                          collectedErrors, acc, agentId, deadline, wake, tried,
                          selCalls, upstreamCalls, started, console >>
     ELSE IF request[r].messages = NullBody
     THEN \* `body.messages?.length` throws a TypeError the handler does not catch
          /\ Respond(r, InternalServerError)
          /\ console' = [console EXCEPT ![r] =
                           @ \o << LogEntry("error", "TypeError", 0) >>]
          /\ UNCHANGED << accounts, request, attempt, attemptCount,
                          collectedErrors, acc, agentId, deadline, wake, tried,
                          selCalls, upstreamCalls, started >>
     ELSE IF request[r].messages = 0
     THEN /\ Respond(r, jsonResponse([error |-> "no messages supplied"], 400))
          /\ UNCHANGED << accounts, request, attempt, attemptCount,
                          collectedErrors, acc, agentId, deadline, wake, tried,
                          selCalls, upstreamCalls, started, console >>
     ELSE IF IndexOfModel(AVAILABLE_MODELS, request[r].model) = 0
     THEN /\ Respond(r, jsonResponse([error |-> "model not found"], 404))
          /\ UNCHANGED << accounts, request, attempt, attemptCount,
                          collectedErrors, acc, agentId, deadline, wake, tried,
                          selCalls, upstreamCalls, started, console >>
     ELSE /\ Iterate(r, accounts, 0, << >>)
          /\ console' = [console EXCEPT ![r] = @ \o logDebug("formatted", 0)]

\* what stays as it is when the handler only moves on to its next await
SessionFrame ==
  UNCHANGED << accounts, request, attempt, attemptCount, collectedErrors, acc,
               agentId, response, tried, selCalls, started, console >>

\* retoolGetThreadId: the response to POST .../threads; on success
\* retoolSendMessage issues its POST
ThreadResponse(r) ==
  /\ pc[r] = "thread"
  /\ UNCHANGED << utilVars, DEBUG_MODE, listing, load, phase, disc, AVAILABLE_MODELS, now, ticks,
                  cancelled >>
  /\ \E outcome \in Outcomes :
       /\ outcome.kind # "ok" => MayFail
       /\ CASE outcome.kind = "ok" ->
                 /\ pc' = [pc EXCEPT ![r] = "send"]
                 /\ upstreamCalls' = [upstreamCalls EXCEPT ![r] = @ + 1]
                 /\ UNCHANGED << deadline, wake >>
                 /\ SessionFrame
            [] outcome.kind = "throw" -> Catch(r, GenericError(r), FALSE)
            [] outcome.kind = "fail" ->
                 Catch(r, createRetoolError("thread_create", DomainName(acc[r]),
                                            "Create thread failed",
                                            outcome.status), TRUE)

\* mutant: a failed send reported as a failed thread creation
SendResponse_ThreadCreateKind(r) ==
  /\ pc[r] = "send"
  /\ UNCHANGED << utilVars, DEBUG_MODE, listing, load, phase, disc, AVAILABLE_MODELS, now, ticks,
                  cancelled >>
  /\ \E outcome \in Outcomes :
       /\ outcome.kind # "ok" => MayFail
       /\ CASE outcome.kind = "ok" ->
                 /\ pc' = [pc EXCEPT ![r] = "poll"]
                 /\ deadline' = [deadline EXCEPT ![r] = now + POLL_TIMEOUT_MS]
                 /\ upstreamCalls' = [upstreamCalls EXCEPT ![r] = @ + 1]
                 /\ UNCHANGED wake
                 /\ SessionFrame
            [] outcome.kind = "throw" -> Catch(r, GenericError(r), FALSE)
            [] outcome.kind = "fail" ->
                 Catch(r, createRetoolError("thread_create", DomainName(acc[r]),
                                            "Create thread failed",
                                            outcome.status), TRUE)

\* retoolSendMessage: the response to POST .../messages; on success
\* retoolGetMessage starts, fixes its deadline and issues the first poll
SendResponse(r) ==
  /\ pc[r] = "send"
  /\ UNCHANGED << utilVars, DEBUG_MODE, listing, load, phase, disc, AVAILABLE_MODELS, now, ticks,
                  cancelled >>
  /\ \E outcome \in Outcomes :
       /\ outcome.kind # "ok" => MayFail
       /\ CASE outcome.kind = "ok" ->
                 /\ pc' = [pc EXCEPT ![r] = "poll"]
                 /\ deadline' = [deadline EXCEPT ![r] = now + POLL_TIMEOUT_MS]
                 /\ upstreamCalls' = [upstreamCalls EXCEPT ![r] = @ + 1]
                 /\ UNCHANGED wake
                 /\ SessionFrame
            [] outcome.kind = "throw" -> Catch(r, GenericError(r), FALSE)
            [] outcome.kind = "fail" ->
                 Catch(r, createRetoolError("message_send", DomainName(acc[r]),
                                            "Send message failed",
                                            outcome.status), TRUE)

\* the success response without the test of body.stream
Success_AlwaysJson(r, responseTxt) ==
  /\ Respond(r, jsonResponse(ChatCompletion(request[r].model, responseTxt), 200))
  /\ deadline' = [deadline EXCEPT ![r] = 0]
  /\ UNCHANGED << accounts, request, attempt, attemptCount, collectedErrors,
                  acc, agentId, wake, tried, selCalls, upstreamCalls, started,
                  console >>

\* the session succeeded: the response of handleRequest
Success(r, responseTxt) ==
  /\ Respond(r, IF request[r].stream
                THEN sseStream(retoolStreamGenerator(responseTxt, request[r].model))
                ELSE jsonResponse(ChatCompletion(request[r].model, responseTxt), 200))
  /\ deadline' = [deadline EXCEPT ![r] = 0]
  /\ UNCHANGED << accounts, request, attempt, attemptCount, collectedErrors,
                  acc, agentId, wake, tried, selCalls, upstreamCalls, started,
                  console >>

\* mutant: a failed poll tried again after the pause
PollResponse_RetriesFailedPoll(r) ==
  /\ pc[r] = "poll"
  /\ UNCHANGED << utilVars, DEBUG_MODE, listing, load, phase, disc, AVAILABLE_MODELS, now, ticks,
                  cancelled >>
  /\ \E outcome \in Outcomes, status \in {"COMPLETED", "PENDING"} :
       /\ outcome.kind # "ok" => (MayFail /\ status = "COMPLETED")
       /\ status = "PENDING" => (load # "concurrent" /\ MayFail)
       /\ CASE outcome.kind = "ok" /\ status = "COMPLETED" ->
                 \E txt \in Texts : Success(r, txt)
            [] outcome.kind = "ok" /\ status = "PENDING" ->
                 /\ pc' = [pc EXCEPT ![r] = "sleep"]
                 /\ wake' = [wake EXCEPT ![r] = now + POLL_INTERVAL_MS]
                 /\ UNCHANGED << deadline, upstreamCalls >>
                 /\ SessionFrame
            [] outcome.kind = "throw" -> Catch(r, GenericError(r), FALSE)
            [] outcome.kind = "fail" ->
                 /\ pc' = [pc EXCEPT ![r] = "sleep"]
                 /\ wake' = [wake EXCEPT ![r] = now + POLL_INTERVAL_MS]
                 /\ UNCHANGED << accounts, request, attempt, attemptCount, acc,
                                 agentId, response, tried, selCalls, started,
                                 deadline, upstreamCalls >>
                 /\ collectedErrors' = [collectedErrors EXCEPT ![r] =
                      Append(@, createRetoolError("message_get", DomainName(acc[r]),
                                                  "Get log failed", outcome.status))]
                 /\ console' = [console EXCEPT ![r] = @ \o
                      logRetoolError(createRetoolError("message_get",
                        DomainName(acc[r]), "Get log failed", outcome.status))]

\* retoolGetMessage: the response to one GET .../logs/<runId>
PollResponse(r) ==
  /\ pc[r] = "poll"
  /\ UNCHANGED << utilVars, DEBUG_MODE, listing, load, phase, disc, AVAILABLE_MODELS, now, ticks,
                  cancelled >>
  /\ \E outcome \in Outcomes, status \in {"COMPLETED", "PENDING"} :
       /\ outcome.kind # "ok" => (MayFail /\ status = "COMPLETED")
       /\ status = "PENDING" => (load # "concurrent" /\ MayFail)
       /\ CASE outcome.kind = "ok" /\ status = "COMPLETED" ->
                 \E txt \in Texts : Success(r, txt)
            [] outcome.kind = "ok" /\ status = "PENDING" ->
                 /\ pc' = [pc EXCEPT ![r] = "sleep"]
                 /\ wake' = [wake EXCEPT ![r] = now + POLL_INTERVAL_MS]
                 /\ UNCHANGED << deadline, upstreamCalls >>
                 /\ SessionFrame
            [] outcome.kind = "throw" -> Catch(r, GenericError(r), FALSE)
            [] outcome.kind = "fail" ->
                 Catch(r, createRetoolError("message_get", DomainName(acc[r]),
                                            "Get log failed",
                                            outcome.status), TRUE)

\* mutant: the poll loop without its deadline
Wake_WithoutTimeout(r) ==
  /\ pc[r] = "sleep"
  /\ now >= wake[r]
  /\ now < deadline[r]
  /\ UNCHANGED << utilVars, DEBUG_MODE, listing, load, phase, disc, AVAILABLE_MODELS, now, ticks,
                  cancelled >>
  /\ pc' = [pc EXCEPT ![r] = "poll"]
  /\ wake' = [wake EXCEPT ![r] = 0]
  /\ upstreamCalls' = [upstreamCalls EXCEPT ![r] = @ + 1]
  /\ UNCHANGED deadline
  /\ SessionFrame

\* mutant: the loop condition `Date.now() <= deadline`
Wake_PollsAtDeadline(r) ==
  /\ pc[r] = "sleep"
  /\ now >= wake[r]
  /\ now > deadline[r] => MayFail
  /\ UNCHANGED << utilVars, DEBUG_MODE, listing, load, phase, disc, AVAILABLE_MODELS, now, ticks,
                  cancelled >>
  /\ IF now <= deadline[r]
     THEN /\ pc' = [pc EXCEPT ![r] = "poll"]
          /\ wake' = [wake EXCEPT ![r] = 0]
          /\ upstreamCalls' = [upstreamCalls EXCEPT ![r] = @ + 1]
          /\ UNCHANGED deadline
          /\ SessionFrame
     ELSE Catch(r, createRetoolError("message_get", DomainName(acc[r]),
                                     "Timeout waiting for completion", NoStatus),
                TRUE)

\* retoolGetMessage: the 1 s timer fired; the loop condition
\* `Date.now() < deadline` decides between the next poll and the timeout
Wake(r) ==
  /\ pc[r] = "sleep"
  /\ now >= wake[r]
  /\ now >= deadline[r] => MayFail
  /\ UNCHANGED << utilVars, DEBUG_MODE, listing, load, phase, disc, AVAILABLE_MODELS, now, ticks,
                  cancelled >>
  /\ IF now < deadline[r]
     THEN /\ pc' = [pc EXCEPT ![r] = "poll"]
          /\ wake' = [wake EXCEPT ![r] = 0]
          /\ upstreamCalls' = [upstreamCalls EXCEPT ![r] = @ + 1]
          /\ UNCHANGED deadline
          /\ SessionFrame
     ELSE Catch(r, createRetoolError("message_get", DomainName(acc[r]),
                                     "Timeout waiting for completion", NoStatus),
                TRUE)

----------------------------------------------------------------------------
(* The client of a chat request goes away while the session polls.  No     *)
(* code of the adapter reads req.signal, so nothing but this flag changes.  *)
Cancel(r) ==
  /\ load = "single"
  /\ started <= MaxCancellable
  /\ pc[r] \in {"poll", "sleep"}
  /\ ~cancelled[r]
  /\ cancelled' = [cancelled EXCEPT ![r] = TRUE]
  /\ UNCHANGED << utilVars, DEBUG_MODE, listing, load, phase, disc, accounts,
                  AVAILABLE_MODELS, now, ticks, console >>
  /\ UNCHANGED << pc, request, attempt, attemptCount, collectedErrors, acc,
                  agentId, deadline, wake, response, tried, selCalls,
                  upstreamCalls, started >>

----------------------------------------------------------------------------
(* handleRequest, GET /v1/models and GET /models *)

\* mutant: the pattern without its i flag
MatchesBearer_CaseSensitive(header) ==
  header.scheme = "Bearer" /\ header.token # ""

\* /^Bearer\s+(.+)$/i: the scheme in any case, then a token
MatchesBearer(header) ==
  header.scheme \in {"Bearer", "bearer"} /\ header.token # ""

\* requireAuth: the Error it throws ("" for none) and the token it returns
requireAuth(header) ==
  IF ~MatchesBearer(header) THEN [thrown |-> "401", token |-> ""]
  ELSE IF header.token \notin VALID_CLIENT_KEYS
       THEN [thrown |-> "403", token |-> ""]
       ELSE [thrown |-> "", token |-> header.token]

ModelList ==
  [object |-> "list",
   data |-> [i \in 1..Len(AVAILABLE_MODELS) |->
               [id |-> AVAILABLE_MODELS[i].id, object |-> "model",
                owned_by |-> AVAILABLE_MODELS[i].owned_by,
                name |-> << AVAILABLE_MODELS[i].name,
                            AVAILABLE_MODELS[i].model_name >>]]]

ListModels ==
  /\ phase = "serve"
  /\ load \in {"catalog", "sameorg"}
  /\ \E path \in {"/v1/models", "/models"}, header \in Headers :
       LET auth == requireAuth(header)
           resp == IF path = "/v1/models" /\ auth.thrown # ""
                   THEN jsonResponse([error |-> "unauthorized"],
                                     IF auth.thrown = "403" THEN 403 ELSE 401)
                   ELSE jsonResponse(ModelList, 200)
       IN listing' = [path |-> path, header |-> header, response |-> resp]
  /\ UNCHANGED << utilVars, DEBUG_MODE, load, phase, disc, accounts, AVAILABLE_MODELS,
                  now, ticks, console >>
  /\ UNCHANGED reqVars

----------------------------------------------------------------------------
Next ==
  \/ \E a \in Accs : QueryAgents(a)
  \/ Tick
  \/ \E r \in Reqs : Receive(r)
  \/ \E r \in Reqs : ParseBody(r)
  \/ \E r \in Reqs : ThreadResponse(r)
  \/ \E r \in Reqs : SendResponse(r)
  \/ \E r \in Reqs : PollResponse(r)
  \/ \E r \in Reqs : Wake(r)
  \/ \E r \in Reqs : Cancel(r)
  \/ ListModels

Spec == Init /\ [][Next]_vars

----------------------------------------------------------------------------
(* Progress.  Every upstream call returns, every timer fires, and while a   *)
(* request sleeps between two polls the clock moves on, here by the length  *)
(* of the poll window at once.                                              *)

SleepTick ==
  /\ \E r \in Reqs : pc[r] = "sleep" /\ now < wake[r]
  /\ now' = now + POLL_TIMEOUT_MS
  /\ UNCHANGED << utilVars, DEBUG_MODE, listing, load, phase, disc, accounts,
                  AVAILABLE_MODELS, ticks, console >>
  /\ UNCHANGED reqVars

LiveInit ==
  /\ Start({"live"})
  /\ DEBUG_MODE = FALSE
  /\ NoUtility

LiveNext ==
  \/ \E a \in Accs : QueryAgents(a)
  \/ Tick
  \/ SleepTick
  \/ \E r \in Reqs : Receive(r)
  \/ \E r \in Reqs : ParseBody(r)
  \/ \E r \in Reqs : ThreadResponse(r)
  \/ \E r \in Reqs : SendResponse(r)
  \/ \E r \in Reqs : PollResponse(r)
  \/ \E r \in Reqs : Wake(r)

Fairness ==
  /\ WF_vars(SleepTick)
  /\ \A r \in Reqs :
       /\ WF_vars(ParseBody(r))
       /\ WF_vars(ThreadResponse(r))
       /\ WF_vars(SendResponse(r))
       /\ WF_vars(PollResponse(r))
       /\ WF_vars(Wake(r))

LiveSpec == LiveInit /\ [][LiveNext]_vars /\ Fairness

----------------------------------------------------------------------------
(* One streaming body.  sseStream's start() drains the generator with      *)
(* `for await`; every pass of that loop is a step, and between two passes  *)
(* the consumer may read or cancel.                                        *)

StreamInit ==
  /\ Start({"stream"})
  /\ DEBUG_MODE = FALSE
  /\ stream \in { ReadableStream(gen) : gen \in StreamGens }
  /\ conversation = << >>
  /\ formatted = NoText
  /\ NoConfig

\* new ReadableStream(...) calls start(ctrl), which asks the generator for
\* its first chunk: the generator runs up to its first yield, and
\* retoolStreamGenerator draws its streamId and reads the clock on the way
StartStream ==
  /\ load = "stream"
  /\ stream.pump = "unstarted"
  /\ IF stream.gen.gen = "retoolStreamGenerator"
     THEN \E id \in UUIDs :
            stream' = [stream EXCEPT !.pump = "running", !.streamId = id,
                                     !.created = now \div 1000]
     ELSE stream' = [stream EXCEPT !.pump = "running"]
  /\ UNCHANGED << serverVars, conversation, formatted, configVars >>

\* time passes while the body is streamed: the generator pauses 10 ms after
\* every content chunk and the consumer reads at its own pace
StreamTick ==
  /\ load = "stream"
  /\ stream.pump = "running"
  /\ ticks < MaxTicks
  /\ \E d \in ClockSteps : now' = now + d
  /\ ticks' = ticks + 1
  /\ UNCHANGED << utilVars, DEBUG_MODE, listing, load, phase, disc, accounts,
                  AVAILABLE_MODELS, console >>
  /\ UNCHANGED reqVars

\* one pass of `for await (const chunk of gen) ctrl.enqueue(chunk)`, or
\* ctrl.close() once the generator has returned.  When enqueue or close
\* throws, `for await` closes the generator and ctrl.error(e) does nothing,
\* the stream being no longer readable.
Pump ==
  /\ load = "stream"
  /\ stream.pump = "running"
  /\ LET chunks == Chunks(stream.gen) IN
       IF stream.yielded < Len(chunks)
       THEN LET chunk == chunks[stream.yielded + 1]
                s == [stream EXCEPT !.yielded = @ + 1]
            IN IF CanCloseOrEnqueue(s)
               THEN stream' = [s EXCEPT !.queue = Append(@, chunk),
                                        !.enqueued = Append(@, chunk),
                                        !.headers = Append(@, EventHeader(s))]
               ELSE stream' = [s EXCEPT !.pump = "done"]
       ELSE IF CanCloseOrEnqueue(stream)
            THEN stream' = [stream EXCEPT
                              !.pump = "done",
                              !.closeRequested = TRUE,
                              !.state = IF stream.queue = << >>
                                        THEN "closed" ELSE @]
            ELSE stream' = [stream EXCEPT !.pump = "done"]
  /\ UNCHANGED << serverVars, conversation, formatted, configVars >>

\* the consumer reads one chunk
Read ==
  /\ load = "stream"
  /\ stream.state = "readable"
  /\ stream.queue # << >>
  /\ stream' = [stream EXCEPT
                  !.queue = Tail(@),
                  !.received = Append(@, Head(stream.queue)),
                  !.state = IF stream.closeRequested /\ Len(stream.queue) = 1
                            THEN "closed" ELSE @]
  /\ UNCHANGED << serverVars, conversation, formatted, configVars >>

\* the consumer cancels: the stream is closed and its queue dropped; the
\* underlying source of sseStream has no cancel()
CancelStream ==
  /\ load = "stream"
  /\ stream.pump # "unstarted"
  /\ stream.state = "readable"
  /\ stream' = [stream EXCEPT !.state = "closed", !.cancelled = TRUE,
                              !.queue = << >>]
  /\ UNCHANGED << serverVars, conversation, formatted, configVars >>

StreamNext ==
  \/ StartStream
  \/ StreamTick
  \/ Pump
  \/ Read
  \/ CancelStream

\* the loop of start() is never suspended for ever: the generator's 10 ms
\* timer fires
StreamSpec ==
  StreamInit /\ [][StreamNext]_vars /\ WF_vars(StartStream) /\ WF_vars(Pump)

----------------------------------------------------------------------------
(* One prompt: formatMessagesForRetool applied to a conversation *)

FormatInit ==
  /\ Start({"format"})
  /\ DEBUG_MODE = FALSE
  /\ stream = NoStream
  /\ conversation \in Conversations
  /\ formatted = NoText
  /\ NoConfig

Format ==
  /\ load = "format"
  /\ formatted = NoText
  /\ formatted' = formatMessagesForRetool(conversation)
  /\ UNCHANGED << serverVars, stream, conversation, configVars >>

FormatNext == Format

FormatSpec == FormatInit /\ [][FormatNext]_vars

----------------------------------------------------------------------------
(* The configuration: the functions of config.ts applied to an environment *)

ConfigInit ==
  /\ Start({"config"})
  /\ DEBUG_MODE = FALSE
  /\ stream = NoStream
  /\ conversation = << >>
  /\ formatted = NoText
  /\ env \in Environments
  /\ CONFIG = NotLoaded
  /\ returned = NotParsed

\* parseClientApiKeys(input) for a string input
ParseKeys ==
  /\ load = "config"
  /\ env.CLIENT_API_KEYS # Undefined
  /\ ~returned.keysCalled
  /\ returned' = [returned EXCEPT !.keysCalled = TRUE,
                              !.keys = parseClientApiKeys(env.CLIENT_API_KEYS)]
  /\ UNCHANGED << serverVars, stream, conversation, formatted, env, CONFIG >>

\* parseRetoolAccounts(input) for a string input
ParseAccounts ==
  /\ load = "config"
  /\ env.RETOOL_ACCOUNTS # UndefinedText
  /\ ~returned.accountsCalled
  /\ returned' = [returned EXCEPT
                  !.accountsCalled = TRUE,
                  !.accounts = parseRetoolAccounts(env.RETOOL_ACCOUNTS)]
  /\ UNCHANGED << serverVars, stream, conversation, formatted, env, CONFIG >>

\* CONFIG = loadConfig()
LoadConfig ==
  /\ load = "config"
  /\ ~CONFIG.called
  /\ CONFIG' = [called |-> TRUE, result |-> loadConfig(env)]
  /\ UNCHANGED << serverVars, stream, conversation, formatted, env, returned >>

ConfigNext ==
  \/ ParseKeys
  \/ ParseAccounts
  \/ LoadConfig

ConfigSpec == ConfigInit /\ [][ConfigNext]_vars

----------------------------------------------------------------------------
(* Vocabulary of the properties *)

InFlight == {"thread", "send", "poll", "sleep"}

Range(s) == { s[i] : i \in 1..Len(s) }

Last(s) == s[Len(s)]

\* the request passed authentication and validation
Admitted(r) ==
  /\ request[r].auth = "ok"
  /\ request[r].json
  /\ request[r].messages > 0
  /\ \E i \in 1..Len(AVAILABLE_MODELS) : AVAILABLE_MODELS[i].id = request[r].model

\* some agent of the account is an agent of the model
Serves(ac, modelId) ==
  \E i \in 1..Len(AVAILABLE_MODELS) :
    /\ AVAILABLE_MODELS[i].id = modelId
    /\ \E k \in 1..Len(ac.agents) :
         \E j \in 1..Len(AVAILABLE_MODELS[i].agents) :
           ac.agents[k].id = AVAILABLE_MODELS[i].agents[j]

\* valid, outside quarantine at time t, and able to serve the model
Selectable(ac, modelId, t) ==
  /\ ac.is_valid
  /\ ~(ac.error_count >= 3 /\ t - ac.last_used < 300000)
  /\ Serves(ac, modelId)

\* this step holds a selector call of request r
SelectorCalled(r) == selCalls'[r] = selCalls[r] + 1

\* the account that call returned, NoAcc for none
Returned(r) ==
  IF Len(tried'[r]) = Len(tried[r]) + 1 THEN Last(tried'[r]) ELSE NoAcc

\* account a as the selector call of this step saw it: the catch block that
\* ran before the call is applied, the call's own update of last_used is not
PreCall(a) == [accounts'[a] EXCEPT !.last_used = accounts[a].last_used]

\* this step is a failed attempt of request r
AttemptFailed(r) ==
  /\ pc[r] \in InFlight
  /\ Len(collectedErrors'[r]) = Len(collectedErrors[r]) + 1

\* this step is the success of request r's session
AttemptSucceeded(r) ==
  /\ pc[r] = "poll"
  /\ pc'[r] = "done"
  /\ collectedErrors'[r] = collectedErrors[r]

\* the finished request was answered with a completion
Succeeded(r) ==
  /\ pc[r] = "done"
  /\ response[r].status = 200
  /\ response[r].kind = "sse" => response[r].body.gen = "retoolStreamGenerator"

\* all attempts of the finished request failed, or it had none
PoolExhausted(r) ==
  /\ pc[r] = "done"
  /\ Admitted(r)
  /\ Len(collectedErrors[r]) = Len(tried[r])

----------------------------------------------------------------------------
\* C1: within one request no account is attempted more than once.
C1_NoAccountTwice ==
  \A r \in Reqs :
    \A i, j \in 1..Len(tried[r]) : i # j => tried[r][i] # tried[r][j]

\* C2: the attempts value of an exhaustion response equals the number of
\* distinct accounts the request tried.
C2_AttemptsCountDistinctAccounts ==
  \A r \in Reqs :
    (PoolExhausted(r) /\ ~request[r].stream) =>
      response[r].body.error.attempts = Cardinality(Range(tried[r]))

\* C3: a request answers with the exhaustion response only when every account
\* that is valid, outside quarantine and able to serve the model has been
\* attempted by it.
C3_ExhaustedOnlyWhenAllTried ==
  [][\A r \in Reqs :
       (pc[r] # "done" /\ PoolExhausted(r)') =>
         \A a \in Accs :
           Selectable(accounts'[a], request'[r].model, now') =>
             a \in Range(tried'[r])]_vars

\* C4: a selector call never returns an account with error_count >= 3 that
\* was selected less than 300000 ms ago; an account that is valid, serves the
\* model and was selected at least 300000 ms ago is a candidate whatever its
\* error_count, so the call returns it or an account sorted before it.
C4_QuarantineWindow ==
  [][\A r \in Reqs : SelectorCalled(r) =>
       \A a \in Accs :
         /\ (PreCall(a).error_count >= 3 /\ now - PreCall(a).last_used < 300000)
              => Returned(r) # a
         /\ (/\ PreCall(a).is_valid
             /\ Serves(PreCall(a), request'[r].model)
             /\ now - PreCall(a).last_used >= 300000)
              => /\ Returned(r) # NoAcc
                 /\ PreCall(Returned(r)).last_used <= PreCall(a).last_used]_vars

\* an account that failed three times is attempted again after the window
C4_Witness ==
  \E r \in Reqs :
    /\ pc[r] = "thread"
    /\ accounts[acc[r]].error_count >= 3
    /\ accounts[acc[r]].last_used = now

\* C5: is_valid never goes from false to true, and no selector call returns
\* an account that is invalid.
C5_InvalidForever ==
  [][/\ \A a \in Accs : ~accounts[a].is_valid => ~accounts'[a].is_valid
     /\ \A r \in Reqs : SelectorCalled(r) =>
          \A a \in Accs : ~PreCall(a).is_valid => Returned(r) # a]_vars

\* an account went invalid during an attempt, the window passed, and a
\* selector call at the present time returned another account
C5_Witness ==
  \E a \in Accs, r \in Reqs :
    /\ ~accounts[a].is_valid
    /\ accounts[a].last_used > 0
    /\ now - accounts[a].last_used >= 300000
    /\ pc[r] = "thread"
    /\ accounts[acc[r]].last_used = now
    /\ Serves(accounts[a], request[r].model)

\* C6: an attempt that fails with status 401 or 403 leaves the account
\* invalid and its error_count one higher before the next selection, which
\* therefore does not return it.
C6_AuthFailureInvalidates ==
  [][\A r \in Reqs :
       (AttemptFailed(r) /\ Last(collectedErrors'[r]).statusCode \in {401, 403}) =>
         /\ ~accounts'[acc[r]].is_valid
         /\ accounts'[acc[r]].error_count = accounts[acc[r]].error_count + 1
         /\ Returned(r) # acc[r]]_vars

\* a poll answered 401 or 403 and the request went on to another account
C6_Witness ==
  \E r \in Reqs :
    /\ pc[r] = "thread"
    /\ Len(collectedErrors[r]) = 1
    /\ collectedErrors[r][1].operation = "message_get"
    /\ collectedErrors[r][1].statusCode \in {401, 403}
    /\ ~accounts[tried[r][1]].is_valid

\* C7: an attempt that fails for another reason than a 401/403 status leaves
\* is_valid as it was, and the account, if valid, is a candidate for each of
\* its models 300000 ms after its last selection.
C7_OtherFailuresNotPermanent ==
  [][\A r \in Reqs :
       (AttemptFailed(r) /\ Last(collectedErrors'[r]).statusCode \notin {401, 403}) =>
         LET a == acc[r]
             later == accounts'[a].last_used + 300000
         IN /\ accounts'[a].is_valid = accounts[a].is_valid
            /\ \A i \in 1..Len(AVAILABLE_MODELS) :
                 LET m == AVAILABLE_MODELS[i].id
                     g == getBestRetoolAccount(accounts', AVAILABLE_MODELS, m, later)
                 IN (accounts'[a].is_valid /\ Serves(accounts'[a], m)) =>
                      /\ g.chosen # NoAcc
                      /\ accounts'[g.chosen].last_used <= accounts'[a].last_used]_vars

\* a poll timed out, the account stayed valid and, the window over, is
\* selected again
C7_Witness ==
  \E r \in Reqs :
    /\ Len(collectedErrors[r]) >= 1
    /\ Last(collectedErrors[r]).message = "Timeout waiting for completion"
    /\ Last(collectedErrors[r]).statusCode = NoStatus
    /\ accounts[Last(collectedErrors[r]).account].is_valid

\* C8: the error list of a request holds one error per failed attempt, in
\* the order of the attempts.
C8_OneErrorPerFailedAttempt ==
  \A r \in Reqs :
    LET n == Len(collectedErrors[r])
        running == pc[r] \in InFlight \/ Succeeded(r)
    IN /\ n = Len(tried[r]) - (IF running THEN 1 ELSE 0)
       /\ \A i \in 1..n : collectedErrors[r][i].account = DomainName(tried[r][i])
       /\ \A i \in 1..(n - 1) :
            collectedErrors[r][i].timestamp <= collectedErrors[r][i + 1].timestamp
       /\ pc[r] \in InFlight => selCalls[r] = Len(tried[r])

\* two attempts on two accounts failed
C8_Witness ==
  \E r \in Reqs :
    /\ pc[r] = "done"
    /\ Len(collectedErrors[r]) = 2
    /\ tried[r][1] # tried[r][2]
    /\ collectedErrors[r][1].operation # collectedErrors[r][2].operation

\* C9: the step in which a session succeeds answers in the mode asked for,
\* with the completion text, and changes no account; afterwards the request
\* makes no selector call and no upstream call.
C9_StopsAtFirstSuccess ==
  [][\A r \in Reqs :
       /\ AttemptSucceeded(r) =>
            /\ accounts' = accounts
            /\ selCalls'[r] = selCalls[r]
            /\ upstreamCalls'[r] = upstreamCalls[r]
            /\ tried'[r] = tried[r]
            /\ response'[r].status = 200
            /\ response'[r].kind = (IF request[r].stream THEN "sse" ELSE "json")
            /\ IF request[r].stream
               THEN response'[r].body.text \in Texts
               ELSE response'[r].body.message.content \in Texts
       /\ (Succeeded(r) /\ started' = started) =>
            /\ selCalls'[r] = selCalls[r]
            /\ upstreamCalls'[r] = upstreamCalls[r]
            /\ tried'[r] = tried[r]
            /\ response'[r] = response[r]]_vars

\* a streaming request succeeded on its second attempt
C9_Witness ==
  \E r \in Reqs :
    /\ pc[r] = "done"
    /\ request[r].stream
    /\ response[r].status = 200
    /\ Len(collectedErrors[r]) = 1
    /\ Len(tried[r]) = 2

\* C10: the non-streaming exhaustion response is a 503 whose body carries
\* the fixed message and type, the attempt count and the request's errors,
\* in order and field by field.
C10_ExhaustionResponse ==
  \A r \in Reqs :
    (PoolExhausted(r) /\ ~request[r].stream) =>
      /\ response[r].kind = "json"
      /\ response[r].status = 503
      /\ response[r].body.error.message = "All Retool accounts failed"
      /\ response[r].body.error.type = "upstream_error"
      /\ response[r].body.error.attempts = attemptCount[r]
      /\ Len(response[r].body.error.details) = Len(collectedErrors[r])
      /\ \A i \in 1..Len(collectedErrors[r]) :
           LET d == response[r].body.error.details[i]
               e == collectedErrors[r][i]
           IN /\ d.operation = e.operation
              /\ d.account = e.account
              /\ d.statusCode = e.statusCode
              /\ d.message = e.message
              /\ d.timestamp = e.timestamp

\* an exhaustion response with two errors, one with and one without a status
C10_Witness ==
  \E r \in Reqs :
    /\ PoolExhausted(r)
    /\ ~request[r].stream
    /\ Len(collectedErrors[r]) = 2
    /\ collectedErrors[r][1].statusCode # NoStatus
    /\ collectedErrors[r][2].statusCode = NoStatus

\* C11: when every attempt of a streaming request failed, or no account was
\* selectable, the response stream is one error frame with the generic
\* message, then the [DONE] marker, and nothing else.
C11_StreamingExhaustion ==
  \A r \in Reqs :
    (PoolExhausted(r) /\ request[r].stream) =>
      /\ response[r].kind = "sse"
      /\ Frames(response[r].body) =
           << ErrorFrame("all retool attempts failed", 503), DoneMarker >>
      /\ \A i \in 1..Len(collectedErrors[r]) :
           response[r].body.message # collectedErrors[r][i].message

\* a streaming request answered after two failed attempts
C11_Witness ==
  \E r \in Reqs :
    /\ PoolExhausted(r)
    /\ request[r].stream
    /\ Len(collectedErrors[r]) = 2
    /\ Len(Frames(response[r].body)) = 2

\* C12: in every request the number of selector calls that returned an
\* account is at most the number of accounts.
C12_AttemptsAtMostAccounts ==
  \A r \in Reqs :
    /\ Len(tried[r]) <= NumAccs
    /\ attemptCount[r] = Len(tried[r])
    /\ selCalls[r] <= NumAccs

\* a request that used as many attempts as there are accounts
C12_Witness ==
  \E r \in Reqs : Len(tried[r]) = NumAccs /\ pc[r] \in InFlight

\* C14: a chat request whose body does not parse, whose message list is
\* empty or missing, or whose model is not in the catalog is answered 400,
\* 400 and 404 respectively by the step that reads the body; that step calls
\* no selector, makes no upstream call and changes no account.
C14_RejectedBeforeSelector ==
  [][\A r \in Reqs :
       (pc[r] = "body" /\ pc'[r] # "body" /\ ~Admitted(r)) =>
         /\ pc'[r] = "done"
         /\ response'[r].status =
              (IF ~request[r].json THEN 400
               ELSE IF request[r].messages <= 0 THEN 400 ELSE 404)
         /\ selCalls'[r] = 0
         /\ upstreamCalls'[r] = 0
         /\ tried'[r] = << >>
         /\ accounts' = accounts]_vars

\* C15: a chat or /v1/models request without a well-formed Bearer header is
\* answered 401, one with a token outside the allow-list 403, and neither
\* calls the selector or changes an account; /models is answered 200 with
\* the list whatever the header.
C15_BearerAllowList ==
  [][/\ \A r \in Reqs :
          (pc'[r] = "done" /\ request'[r].auth \in {"missing", "unknown"}) =>
            /\ response'[r] = jsonResponse([error |-> "unauthorized"],
                   IF request'[r].auth = "missing" THEN 401 ELSE 403)
            /\ selCalls'[r] = 0
            /\ upstreamCalls'[r] = 0
            /\ tried'[r] = << >>
     /\ started' # started => accounts' = accounts
     /\ listing' # listing =>
          /\ accounts' = accounts
          /\ selCalls' = selCalls
          /\ LET h == listing'.header
                 wellFormed == h.scheme \in {"Bearer", "bearer"} /\ h.token # ""
             IN listing'.response =
                  IF listing'.path = "/models" THEN jsonResponse(ModelList, 200)
                  ELSE IF ~wellFormed
                       THEN jsonResponse([error |-> "unauthorized"], 401)
                  ELSE IF h.token \notin VALID_CLIENT_KEYS
                       THEN jsonResponse([error |-> "unauthorized"], 403)
                  ELSE jsonResponse(ModelList, 200)]_vars

\* /v1/models was refused for a token outside the allow-list, with a catalog
\* that holds two models
C15_Witness ==
  /\ listing.path = "/v1/models"
  /\ listing.header = Header("Bearer", "other")
  /\ listing.response.status = 403
  /\ Len(AVAILABLE_MODELS) = 2

\* lines written with console.error
ErrorLines(lines) ==
  Cardinality({ i \in 1..Len(lines) : lines[i].level = "error" })

\* C16: every failure that ends an attempt or an agent query has written at
\* least one error line to the console by the time the orchestrator has
\* recorded it.
C16_EveryFailureLogged ==
  [][/\ \A r \in Reqs :
          AttemptFailed(r) => ErrorLines(console'[r]) > ErrorLines(console[r])
     /\ (phase = "discover" /\ accounts'[disc].agents = << >>) =>
          ErrorLines(console'[0]) > ErrorLines(console[0])]_vars

\* C17: once the client of a request has gone away during the poll step, the
\* request issues no further upstream call and attempts no further account.
C17_CancelStopsPolling ==
  [][\A r \in Reqs :
       (cancelled[r] /\ cancelled'[r]) =>
         /\ upstreamCalls'[r] = upstreamCalls[r]
         /\ tried'[r] = tried[r]]_vars

\* C13: every request that has passed validation eventually succeeds or
\* answers with the exhaustion response, provided every upstream call
\* returns and the clock advances.
C13_RequestTerminates ==
  \A r \in Reqs : (pc[r] \in InFlight) ~> (Succeeded(r) \/ PoolExhausted(r))

\* a request that polled, slept past its deadline, timed out on every
\* account and answered with the exhaustion response
C13_Witness ==
  \E r \in Reqs :
    /\ PoolExhausted(r)
    /\ Len(collectedErrors[r]) = NumAccs
    /\ \A i \in 1..NumAccs :
         collectedErrors[r][i].message = "Timeout waiting for completion"

----------------------------------------------------------------------------
(* The streaming body *)

\* C18: once the consumer has cancelled the stream, every step of the
\* stream leaves the chunks the controller accepted and the chunks the
\* consumer received as they were and ends the loop of start() (the loop
\* makes one more pass at most, whose chunk ctrl.enqueue refuses); and the
\* loop does end.
C18_CancelStopsProduction ==
  /\ [][stream.cancelled =>
          /\ stream'.enqueued = stream.enqueued
          /\ stream'.received = stream.received
          /\ stream'.pump = "done"]_stream
  /\ (stream.cancelled ~> stream.pump = "done")

\* a stream cancelled half way: the chunk yielded after the cancellation was
\* refused and the rest of the text was never produced
C18_Witness ==
  /\ stream.gen.gen = "retoolStreamGenerator"
  /\ stream.cancelled
  /\ stream.pump = "done"
  /\ Len(stream.enqueued) >= 2
  /\ stream.yielded = Len(stream.enqueued) + 1
  /\ stream.yielded < Len(Chunks(stream.gen))

CeilDiv(a, b) == (a + b - 1) \div b

\* C19: a success stream drained to its end holds, for the text t, the role
\* frame, then ceil(len(t)/5) content frames carrying the consecutive
\* 5-character slices of t (the last one the remainder), whose concatenation
\* is t, then the stop frame, then [DONE]; the stream is then closed, and
\* the consumer receives these frames in this order.
C19_StreamFrames ==
  ( /\ stream.gen.gen = "retoolStreamGenerator"
    /\ stream.pump = "done"
    /\ ~stream.cancelled )
  => LET t == stream.gen.text
         n == CeilDiv(Len(t), 5)
         fr == Flatten(stream.enqueued)
         got == Flatten(stream.received)
     IN /\ Len(fr) = n + 3
        /\ fr[1] = RoleFrame
        /\ \A k \in 1..n :
             /\ fr[k + 1].type = "content"
             /\ fr[k + 1].content = SubSeq(t, 5 * (k - 1) + 1, Min(5 * k, Len(t)))
             /\ Len(fr[k + 1].content) = IF k < n THEN 5 ELSE Len(t) - 5 * (n - 1)
        /\ Flatten([k \in 1..n |-> fr[k + 1].content]) = t
        /\ fr[n + 2] = StopFrame
        /\ fr[n + 3] = DoneMarker
        /\ stream.closeRequested
        /\ Len(got) <= Len(fr) /\ got = SubSeq(fr, 1, Len(got))

\* "Hello world" streamed and read to the end: "Hello", " worl", "d"
C19_Witness ==
  /\ stream.gen.gen = "retoolStreamGenerator"
  /\ stream.gen.text = HelloWorld
  /\ stream.pump = "done"
  /\ stream.state = "closed"
  /\ ~stream.cancelled
  /\ Len(Flatten(stream.received)) = 6
  /\ Flatten(stream.received)[4].content = << "d" >>

----------------------------------------------------------------------------
(* The prompt *)

EndsWith(text, suffix) ==
  /\ Len(text) >= Len(suffix)
  /\ SubSeq(text, Len(text) - Len(suffix) + 1, Len(text)) = suffix

FinalMessage ==
  IF conversation = << >> THEN ChatMessage("", << >>)
  ELSE conversation[Len(conversation)]

\* the length of the turns of the messages from i on: "\n\n", the role
\* name, ": " and the content
RECURSIVE TurnsLength(_, _)
TurnsLength(messages, i) ==
  IF i > Len(messages) THEN 0
  ELSE 2 + (IF messages[i].role = "user" THEN 5 ELSE 9) + 2
       + Len(messages[i].content) + TurnsLength(messages, i + 1)

\* C20, as stated: the text of a conversation whose final message has role
\* assistant ends with that assistant turn and has no trailing "Human: "
\* marker.
C20_NoTrailingMarker ==
  (formatted # NoText /\ FinalMessage.role = "assistant")
  => /\ EndsWith(formatted, TurnPrefix("Assistant") \o FinalMessage.content)
     /\ ~EndsWith(formatted, TurnPrefix("Human"))

\* C20, amended: the text of a conversation whose final message has role
\* assistant is its turns followed by one trailing "\n\nHuman: " marker and
\* nothing else; the text of a conversation whose final message has role
\* user is its turns only and ends with that user turn.
C20_MarkerOnlyAfterAssistant ==
  formatted # NoText =>
    /\ FinalMessage.role = "assistant" =>
         /\ EndsWith(formatted, TurnPrefix("Assistant") \o FinalMessage.content
                                  \o TurnPrefix("Human"))
         /\ Len(formatted) = TurnsLength(conversation, 1) + 9
    /\ FinalMessage.role = "user" =>
         /\ EndsWith(formatted, TurnPrefix("Human") \o FinalMessage.content)
         /\ Len(formatted) = TurnsLength(conversation, 1)

\* [{user, "Hi"}, {assistant, "Hello"}] formatted
C20_Witness ==
  /\ conversation = << ChatMessage("user", Hi), ChatMessage("assistant", Hello) >>
  /\ formatted = TurnPrefix("Human") \o Hi \o TurnPrefix("Assistant") \o Hello
                 \o TurnPrefix("Human")

\* what the text holds after its last turn
AfterLastTurn ==
  SubSeq(formatted, TurnsLength(conversation, 1) + 1, Len(formatted))

\* C21: the text is the turns followed by the "\n\nHuman: " marker if the
\* list is not empty and its final message has role assistant, and the turns
\* followed by nothing in every other case (final role user or system, or
\* the empty list).
C21_MarkerIffAssistantFinal ==
  formatted # NoText =>
    /\ Len(formatted) >= TurnsLength(conversation, 1)
    /\ conversation # << >> =>
         EndsWith(SubSeq(formatted, 1, TurnsLength(conversation, 1)),
                  TurnPrefix(IF FinalMessage.role = "user"
                             THEN "Human" ELSE "Assistant")
                  \o FinalMessage.content)
    /\ AfterLastTurn =
         IF conversation # << >> /\ FinalMessage.role = "assistant"
         THEN TurnPrefix("Human") ELSE << >>

\* a conversation with an assistant turn in the middle and a system turn
\* last: nothing follows the last turn
C21_Witness ==
  /\ conversation = << ChatMessage("assistant", Hi), ChatMessage("system", Hello) >>
  /\ formatted = TurnPrefix("Assistant") \o Hi \o TurnPrefix("Assistant") \o Hello

----------------------------------------------------------------------------
(* The model catalog *)

\* the first three hyphen-separated segments of a model name (all of them
\* when the name has fewer)
FirstThreeSegments(name) ==
  IF Len(name) <= 3 THEN name ELSE << name[1], name[2], name[3] >>

\* the agents discovered, over all accounts
Discovered ==
  { ag \in UNION { { accounts[a].agents[k] : k \in 1..Len(accounts[a].agents) }
                   : a \in Accs } : TRUE }

RecordsOf(series) ==
  { i \in 1..Len(AVAILABLE_MODELS) : AVAILABLE_MODELS[i].id = series }

\* C22: once discovery has run, for every agent discovered on any account
\* the catalog holds exactly one ModelRecord whose id is the first three
\* segments of the agent's model name, and that record's agent list holds
\* the id of every discovered agent whose name has these segments and of no
\* other agent.
C22_OneRecordPerSeries ==
  phase = "serve" =>
    /\ \A ag \in Discovered :
         /\ Cardinality(RecordsOf(FirstThreeSegments(ag.model))) = 1
         /\ \A i \in RecordsOf(FirstThreeSegments(ag.model)) :
              InSeq(ag.id, AVAILABLE_MODELS[i].agents)
    /\ \A i \in 1..Len(AVAILABLE_MODELS) :
         \A k \in 1..Len(AVAILABLE_MODELS[i].agents) :
           \E ag \in Discovered :
             /\ ag.id = AVAILABLE_MODELS[i].agents[k]
             /\ FirstThreeSegments(ag.model) = AVAILABLE_MODELS[i].id

\* claude-sonnet-4-v1 of account 1 and claude-sonnet-4-v2 of account 2 in
\* one record, next to the record of gpt-4o
C22_Witness ==
  /\ phase = "serve"
  /\ Len(AVAILABLE_MODELS) = 2
  /\ \E i \in 1..2 :
       /\ AVAILABLE_MODELS[i].id = << "claude", "sonnet", "4" >>
       /\ AVAILABLE_MODELS[i].agents = << "g1", "g2" >>

----------------------------------------------------------------------------
(* The configuration *)

NonSpace(text) == SelectSeq(text, LAMBDA tk : tk.t # "space")

\* C23: when RETOOL_ACCOUNTS is the JSON text of an array of account
\* configurations, parseRetoolAccounts throws nothing and returns as many
\* accounts, in the same order, each with the domain and the two tokens of
\* its configuration and with is_valid = true, last_used = 0,
\* error_count = 0, no agent and no selected agent.
C23_AccountsRoundTrip ==
  returned.accountsCalled =>
    \A configs \in ConfigArrays :
      NonSpace(env.RETOOL_ACCOUNTS) = JSONstringify(configs) =>
        LET accs == returned.accounts.value IN
        /\ returned.accounts.thrown = ""
        /\ Len(accs) = Len(configs)
        /\ \A i \in 1..Len(configs) :
             /\ accs[i].domain_name = configs[i].domain_name
             /\ accs[i].x_xsrf_token = configs[i].x_xsrf_token
             /\ accs[i].accessToken = configs[i].accessToken
             /\ accs[i].is_valid
             /\ accs[i].last_used = 0
             /\ accs[i].error_count = 0
             /\ accs[i].agents = << >>
             /\ accs[i].selected_agent_id = NoAgent

\* two configurations that differ in every field, parsed in their order
C23_Witness ==
  /\ returned.accountsCalled
  /\ env.RETOOL_ACCOUNTS =
       << Space >> \o JSONstringify(<< RetoolAccountConfig("b.retool.com", "x2", "t2"),
                                       RetoolAccountConfig("a.retool.com", "x1", "t1") >>)
  /\ Len(returned.accounts.value) = 2
  /\ returned.accounts.value[1].domain_name = "b.retool.com"
  /\ returned.accounts.value[2].accessToken = "t1"

\* the input between positions i and j is an item of the comma-separated
\* input without the white space around it: it holds no comma, begins and
\* ends with a character that is not white space, and only white space lies
\* between it and the commas (or ends of the input) around it
IsKeyAt(input, i, j) ==
  /\ \A k \in i..j : input[k] # ","
  /\ ~IsSpace(input[i]) /\ ~IsSpace(input[j])
  /\ \E lo \in 1..i :
       /\ lo = 1 \/ input[lo - 1] = ","
       /\ \A k \in lo..(i - 1) : IsSpace(input[k])
  /\ \E hi \in j..Len(input) :
       /\ hi = Len(input) \/ input[hi + 1] = ","
       /\ \A k \in (j + 1)..hi : IsSpace(input[k])

KeysIn(input) ==
  { SubSeq(input, i, j) :
      << i, j >> \in { p \in (1..Len(input)) \X (1..Len(input)) :
                         p[1] <= p[2] /\ IsKeyAt(input, p[1], p[2]) } }

\* C25: parseClientApiKeys returns exactly the set of the items of the
\* comma-separated input, each without the white space around it, that are
\* not empty; the empty set for an empty or blank input.
C25_KeysParsed ==
  returned.keysCalled =>
    /\ returned.keys = KeysIn(env.CLIENT_API_KEYS)
    /\ (\A k \in 1..Len(env.CLIENT_API_KEYS) : IsSpace(env.CLIENT_API_KEYS[k]))
         => returned.keys = {}

\* "a, a": the same key twice, once after a blank
C25_Witness ==
  /\ returned.keysCalled
  /\ env.CLIENT_API_KEYS = << "a", ",", " ", "a" >>
  /\ returned.keys = { << "a" >> }

\* a variable that is not set, or set to the empty string
Missing(value, undefined) == value = undefined \/ value = << >>

Names(thrown, variable) ==
  \E i \in 1..Len(thrown) : thrown[i].variable = variable

\* loadConfig fails when CLIENT_API_KEYS or RETOOL_ACCOUNTS is missing, when
\* CLIENT_API_KEYS holds only commas and white space, and when
\* RETOOL_ACCOUNTS is not valid JSON.  The error names every missing
\* variable; when none is missing it names every variable whose value is
\* rejected; it names no variable whose value is accepted.  A configuration
\* it returns has a client key and an account.
NoKey(value) ==
  value # Undefined /\ \A k \in 1..Len(value) : IsSpace(value[k]) \/ value[k] = ","

InvalidJSON(text) == text # UndefinedText /\ JSONparse(text).thrown # ""

ConfigValidated ==
  LET result == CONFIG.result
      missing == Missing(env.CLIENT_API_KEYS, Undefined)
                 \/ Missing(env.RETOOL_ACCOUNTS, UndefinedText)
  IN
  /\ Missing(env.CLIENT_API_KEYS, Undefined) =>
       (result.thrown # << >> /\ Names(result.thrown, "CLIENT_API_KEYS"))
  /\ Missing(env.RETOOL_ACCOUNTS, UndefinedText) =>
       (result.thrown # << >> /\ Names(result.thrown, "RETOOL_ACCOUNTS"))
  /\ NoKey(env.CLIENT_API_KEYS) =>
       (result.thrown # << >> /\ (~missing => Names(result.thrown, "CLIENT_API_KEYS")))
  /\ InvalidJSON(env.RETOOL_ACCOUNTS) =>
       (result.thrown # << >> /\ (~missing => Names(result.thrown, "RETOOL_ACCOUNTS")))
  /\ Names(result.thrown, "CLIENT_API_KEYS") =>
       (Missing(env.CLIENT_API_KEYS, Undefined) \/ NoKey(env.CLIENT_API_KEYS))
  /\ result.thrown = << >> =>
       (result.clientApiKeys # {} /\ Len(result.retoolAccounts) >= 1)

\* C24, as stated: loadConfig validates the environment as above, and
\* debugMode is false unless DEBUG_MODE is "true".
C24_DebugOnlyForTrue ==
  CONFIG.called =>
    /\ ConfigValidated
    /\ CONFIG.result.debugMode => env.DEBUG_MODE = << "t", "r", "u", "e" >>

\* C24, amended: loadConfig validates the environment as above, and
\* debugMode of a configuration it returns is true exactly when DEBUG_MODE
\* is set to "true" written in any mix of upper and lower case.
C24_ConfigValidated ==
  CONFIG.called =>
    /\ ConfigValidated
    /\ CONFIG.result.thrown = << >> =>
         ( CONFIG.result.debugMode <=>
             /\ env.DEBUG_MODE # Undefined
             /\ Len(env.DEBUG_MODE) = 4
             /\ env.DEBUG_MODE[1] \in {"t", "T"}
             /\ env.DEBUG_MODE[2] \in {"r", "R"}
             /\ env.DEBUG_MODE[3] \in {"u", "U"}
             /\ env.DEBUG_MODE[4] \in {"e", "E"} )

\* a configuration returned with debugMode on for DEBUG_MODE = "TRUE"
C24_Witness ==
  /\ CONFIG.called
  /\ CONFIG.result.thrown = << >>
  /\ CONFIG.result.debugMode
  /\ env.DEBUG_MODE = << "T", "R", "U", "E" >>
  /\ Len(CONFIG.result.retoolAccounts) = 2

----------------------------------------------------------------------------
(* The selector *)

\* account a is a candidate of the selector call of request r in this step
Candidate(r, a) == Selectable(PreCall(a), request'[r].model, now)

\* C26: a selector call with candidates returns the candidate with the
\* smallest last_used, among those the one with the smallest error_count,
\* and among those the first in registry order.
C26_LeastRecentlyUsedFirst ==
  [][\A r \in Reqs :
       (SelectorCalled(r) /\ \E a \in Accs : Candidate(r, a)) =>
         /\ Returned(r) # NoAcc
         /\ Candidate(r, Returned(r))
         /\ \A a \in Accs : Candidate(r, a) =>
              LET c == PreCall(Returned(r))
                  d == PreCall(a)
              IN \/ c.last_used < d.last_used
                 \/ c.last_used = d.last_used /\ c.error_count < d.error_count
                 \/ /\ c.last_used = d.last_used
                    /\ c.error_count = d.error_count
                    /\ Returned(r) <= a]_vars

\* both accounts were last selected at the present time, which the clock
\* has not left since startup, and the second one, with fewer errors, was
\* returned although the first one was a candidate
C26_Witness ==
  \E r \in Reqs :
    /\ ticks = 0
    /\ pc[r] = "thread"
    /\ acc[r] = 2
    /\ accounts[2].error_count >= 1
    /\ accounts[1].last_used = now
    /\ accounts[1].error_count > accounts[2].error_count
    /\ Selectable(accounts[1], request[r].model, now)

\* C27: a selector call that returns an account leaves its last_used at the
\* time of the call, and no other step changes any last_used, so a failed
\* or successful attempt keeps it; and when an attempt fails and the request
\* selects again while another account is a candidate with an older
\* last_used than the failed one, the call returns a different account.
C27_LastUsedSetAtSelection ==
  [][/\ \A r \in Reqs :
          (SelectorCalled(r) /\ Returned(r) # NoAcc) =>
            accounts'[Returned(r)].last_used = now
     /\ \A a \in Accs :
          accounts'[a].last_used # accounts[a].last_used =>
            \E r \in Reqs : SelectorCalled(r) /\ Returned(r) = a
     /\ \A r \in Reqs :
          ( /\ AttemptFailed(r)
            /\ SelectorCalled(r)
            /\ \E b \in Accs \ {acc[r]} :
                 /\ Candidate(r, b)
                 /\ accounts[b].last_used < accounts[acc[r]].last_used )
          => (Returned(r) # NoAcc /\ Returned(r) # acc[r])]_vars

\* a request whose first attempt failed and whose second attempt runs on
\* another account, both selected at their time of call
C27_Witness ==
  \E r \in Reqs :
    /\ pc[r] = "thread"
    /\ Len(tried[r]) = 2
    /\ tried[r][1] # tried[r][2]
    /\ Len(collectedErrors[r]) = 1
    /\ accounts[tried[r][2]].last_used = now
    /\ accounts[tried[r][1]].last_used = collectedErrors[r][1].timestamp

\* C28: a selector call returns none exactly when no account is at once
\* valid, outside quarantine and owner of an agent of the model, and
\* otherwise returns an account that is all three; called in any state with
\* a model id that is not in the catalog, the selector returns none and
\* leaves the accounts as they are.
C28_NoneIffNoCandidate ==
  [][\A r \in Reqs : SelectorCalled(r) =>
       /\ Returned(r) = NoAcc <=> ~(\E a \in Accs : Candidate(r, a))
       /\ Returned(r) # NoAcc =>
            /\ PreCall(Returned(r)).is_valid
            /\ ~( /\ PreCall(Returned(r)).error_count >= 3
                  /\ now - PreCall(Returned(r)).last_used < 300000 )
            /\ Serves(PreCall(Returned(r)), request'[r].model)
       /\ getBestRetoolAccount(accounts, AVAILABLE_MODELS, << "nope" >>, now)
            = [chosen |-> NoAcc, accounts |-> accounts]]_vars

\* a request of a model of the catalog whose last selector call returned
\* none: the valid account that serves the model is in quarantine
C28_Witness ==
  \E r \in Reqs :
    /\ PoolExhausted(r)
    /\ selCalls[r] = Len(tried[r]) + 1
    /\ \E a \in Accs :
         /\ accounts[a].is_valid
         /\ Serves(accounts[a], request[r].model)
         /\ accounts[a].error_count >= 3
         /\ now - accounts[a].last_used < 300000

\* account a after the catch block of this step, if the step has one, and
\* before the selector call that follows it
AfterCatch(a) ==
  IF \E r \in Reqs : AttemptFailed(r) /\ acc[r] = a
  THEN LET r == CHOOSE q \in Reqs : AttemptFailed(q) /\ acc[q] = a IN
       [accounts[a] EXCEPT
          !.error_count = @ + 1,
          !.is_valid = @ /\ Last(collectedErrors'[r]).statusCode \notin {401, 403}]
  ELSE accounts[a]

\* C29: a selector call changes no account's is_valid, error_count or
\* agents, changes last_used of no account but the one it returns, and
\* changes nothing at all in any account when it returns none.
C29_SelectorFrame ==
  [][\A r \in Reqs : SelectorCalled(r) =>
       \A a \in Accs :
         /\ accounts'[a].is_valid = AfterCatch(a).is_valid
         /\ accounts'[a].error_count = AfterCatch(a).error_count
         /\ accounts'[a].agents = AfterCatch(a).agents
         /\ a # Returned(r) => accounts'[a].last_used = AfterCatch(a).last_used
         /\ Returned(r) = NoAcc => accounts'[a] = AfterCatch(a)]_vars

\* an account that was a candidate and never returned: the call recorded
\* its agent and left the rest as parseRetoolAccounts made it
C29_Witness ==
  \E r \in Reqs, a \in Accs :
    /\ pc[r] = "thread"
    /\ a # acc[r]
    /\ accounts[a].selected_agent_id # NoAgent
    /\ accounts[a].last_used = 0
    /\ accounts[a].error_count = 0
    /\ accounts[a].is_valid

\* C30: selected_agent_id of every account is unset or the id of one of the
\* account's own agents.
C30_SelectedAgentOwned ==
  \A a \in Accs :
    \/ accounts[a].selected_agent_id = NoAgent
    \/ \E k \in 1..Len(accounts[a].agents) :
         accounts[a].agents[k].id = accounts[a].selected_agent_id

\* the second account holds the agent of one model and then that of the
\* other
C30_Witness ==
  /\ Len(accounts[2].agents) = 2
  /\ accounts[2].selected_agent_id = accounts[2].agents[2].id
  /\ \E r \in Reqs : pc[r] = "thread" /\ acc[r] = 2 /\ agentId[r] = "g2"

----------------------------------------------------------------------------
(* The attempt *)

\* mutant: the agent id read from the shared account at every upstream call
CallAgent_FromAccount(r) == accounts[acc[r]].selected_agent_id

\* the agentId argument of retoolGetThreadId, retoolSendMessage and
\* retoolGetMessage: the constant the attempt captured after the selection
CallAgent(r) == agentId[r]

\* C31: while an attempt is in flight, the agent id its upstream calls use
\* is the id of an agent of the attempt's account and is listed in the agent
\* set of the model the request asked for, whatever other requests' selector
\* calls have written to selected_agent_id of that account since.
C31_AgentOfAccountAndModel ==
  \A r \in Reqs : pc[r] \in InFlight =>
    /\ \E k \in 1..Len(accounts[acc[r]].agents) :
         accounts[acc[r]].agents[k].id = CallAgent(r)
    /\ \E i \in 1..Len(AVAILABLE_MODELS) :
         /\ AVAILABLE_MODELS[i].id = request[r].model
         /\ InSeq(CallAgent(r), AVAILABLE_MODELS[i].agents)

\* two requests for two models are in flight on the same account, and the
\* later selection has replaced the agent the earlier one recorded there
C31_Witness ==
  \E r, q \in Reqs :
    /\ r # q
    /\ pc[r] \in {"send", "poll"}
    /\ pc[q] \in InFlight
    /\ acc[r] = acc[q]
    /\ request[r].model # request[q].model
    /\ accounts[acc[r]].selected_agent_id = agentId[q]
    /\ accounts[acc[r]].selected_agent_id # agentId[r]

\* C32: no step lowers the last_used of any account (the clock of the model
\* never goes back).
C32_LastUsedNeverDecreases ==
  [][/\ now' >= now
     /\ \A a \in Accs : accounts'[a].last_used >= accounts[a].last_used]_vars

\* an account selected, failed, and selected again at a later time
C32_Witness ==
  \E r \in Reqs :
    /\ pc[r] = "thread"
    /\ Len(collectedErrors[r]) >= 1
    /\ collectedErrors[r][1].account = DomainName(acc[r])
    /\ collectedErrors[r][1].timestamp < now
    /\ accounts[acc[r]].last_used = now

\* C33: error_count of every account is 0 at startup, and every step adds
\* to it the number of attempts on that account that fail in the step, 1 for
\* a failed attempt and 0 for every other step, the success of an attempt
\* included; so it always is the number of failed attempts on the account.
C33_ErrorCountCountsFailures ==
  /\ \A a \in Accs : accounts[a].error_count = 0
  /\ [][\A a \in Accs :
          accounts'[a].error_count =
            accounts[a].error_count
            + Cardinality({ r \in Reqs : AttemptFailed(r) /\ acc[r] = a })]_vars

\* two overlapping requests failed on the same account, which counts both
\* failures, and one of them then succeeded on the other account
C33_Witness ==
  \E r, q \in Reqs, a \in Accs :
    /\ load = "concurrent"
    /\ r # q
    /\ Len(collectedErrors[r]) = 1 /\ collectedErrors[r][1].account = DomainName(a)
    /\ Len(collectedErrors[q]) = 1 /\ collectedErrors[q][1].account = DomainName(a)
    /\ accounts[a].error_count = 2
    /\ Succeeded(r)
    /\ pc[q] \in InFlight

\* C34: when a selector call returns an account whose error_count, as the
\* call saw it, is 3 or more, the time of the call is at least 300000 ms
\* after the account's previous selection, the time last_used held until
\* then (0 for an account never selected).
C34_FailingAccountOncePerWindow ==
  [][\A r \in Reqs :
       ( /\ SelectorCalled(r)
         /\ Returned(r) # NoAcc
         /\ PreCall(Returned(r)).error_count >= 3 )
       => /\ accounts'[Returned(r)].last_used = now
          /\ now - accounts[Returned(r)].last_used >= 300000]_vars

\* the first attempt of a request runs on an account that had failed three
\* times and whose previous selection is exactly 300000 ms old
C34_Witness ==
  \E r \in Reqs :
    /\ pc[r] = "thread"
    /\ Len(tried[r]) = 1
    /\ accounts[acc[r]].error_count >= 3
    /\ accounts[acc[r]].last_used = now
    /\ ticks = 1
    /\ now = StartTime + 300000

----------------------------------------------------------------------------
(* The session *)

\* the error kind of the step the handler is suspended at
StepKind(r) ==
  CASE pc[r] = "thread" -> "thread_create"
    [] pc[r] = "send" -> "message_send"
    [] OTHER -> "message_get"

\* this step is an attempt of request r failing by a non-success status
StatusFailure(r) ==
  AttemptFailed(r) /\ Last(collectedErrors'[r]).statusCode # NoStatus

\* C35: the send is issued only by the step that received the thread, and
\* the first poll only by the step that received the answer to the send,
\* each with one upstream call more and no error recorded; an attempt that
\* fails by a non-success status records one error of the kind of the step
\* it was at, carrying a non-success status, and issues no further call for
\* that attempt: the request is finished or a new attempt has started with
\* a selection of its own.
C35_StepsInOrder ==
  [][\A r \in Reqs :
       /\ (pc'[r] = "send" /\ pc[r] # "send") =>
            /\ pc[r] = "thread"
            /\ collectedErrors'[r] = collectedErrors[r]
            /\ upstreamCalls'[r] = upstreamCalls[r] + 1
            /\ acc'[r] = acc[r] /\ agentId'[r] = agentId[r]
       /\ (pc'[r] = "poll" /\ pc[r] \notin {"poll", "sleep"}) =>
            /\ pc[r] = "send"
            /\ collectedErrors'[r] = collectedErrors[r]
            /\ upstreamCalls'[r] = upstreamCalls[r] + 1
            /\ acc'[r] = acc[r] /\ agentId'[r] = agentId[r]
       /\ StatusFailure(r) =>
            /\ Last(collectedErrors'[r]).operation = StepKind(r)
            /\ Last(collectedErrors'[r]).statusCode \in FailStatuses
            /\ Last(collectedErrors'[r]).account = DomainName(acc[r])
            /\ pc'[r] \in {"thread", "done"}
            /\ pc'[r] = "done" => upstreamCalls'[r] = upstreamCalls[r]
            /\ pc'[r] = "thread" =>
                 /\ SelectorCalled(r)
                 /\ Len(tried'[r]) = Len(tried[r]) + 1
                 /\ upstreamCalls'[r] = upstreamCalls[r] + 1]_vars

\* the only attempt of a request got its thread and failed at the send with
\* status 401: two upstream calls were made and no poll
C35_Witness ==
  \E r \in Reqs :
    /\ pc[r] = "done"
    /\ Len(tried[r]) = 1
    /\ Len(collectedErrors[r]) = 1
    /\ collectedErrors[r][1].operation = "message_send"
    /\ collectedErrors[r][1].statusCode = 401
    /\ upstreamCalls[r] = 2

\* C36: the step in which a poll is answered with a non-success status
\* records a message_get error with that step's status and ends the attempt,
\* whether or not the deadline has passed: the request does not poll or
\* pause again in that attempt, it is finished or starts a new attempt with
\* a selection of its own.
C36_FailedPollEndsAttempt ==
  [][\A r \in Reqs :
       ( /\ pc[r] = "poll"
         /\ Len(collectedErrors'[r]) = Len(collectedErrors[r]) + 1
         /\ Last(collectedErrors'[r]).message = "Get log failed" )
       => /\ Last(collectedErrors'[r]).operation = "message_get"
          /\ Last(collectedErrors'[r]).statusCode \in FailStatuses
          /\ Last(collectedErrors'[r]).timestamp = now
          /\ pc'[r] \notin {"poll", "sleep", "send"}
          /\ deadline'[r] = 0 /\ wake'[r] = 0
          /\ accounts'[acc[r]].error_count >= accounts[acc[r]].error_count + 1
          /\ pc'[r] = "thread" => (SelectorCalled(r) /\ Returned(r) # NoAcc)
          /\ pc'[r] # "thread" => (pc'[r] = "done" /\ PoolExhausted(r)')]_vars

\* the second poll of an attempt failed with status 500 one second after
\* the first, long before the deadline, and the request went on to a new
\* attempt
C36_Witness ==
  \E r \in Reqs :
    /\ pc[r] = "thread"
    /\ Len(collectedErrors[r]) = 1
    /\ collectedErrors[r][1].operation = "message_get"
    /\ collectedErrors[r][1].statusCode = 500
    /\ collectedErrors[r][1].timestamp = StartTime + 1000
    /\ upstreamCalls[r] = 5

\* this step issues a poll request of request r
PollIssued(r) == pc'[r] = "poll" /\ pc[r] # "poll"

\* this step records the timeout error of request r
TimedOut(r) ==
  /\ AttemptFailed(r)
  /\ Last(collectedErrors'[r]).operation = "message_get"
  /\ Last(collectedErrors'[r]).message = "Timeout waiting for completion"
  /\ Last(collectedErrors'[r]).statusCode = NoStatus

----------------------------------------------------------------------------
(* Discovery *)

\* C38: whatever way the agent query of an account fails, the account is
\* left with no agents, with its error_count as it was, and invalid exactly
\* when the failure is a response of status 401 or 403; and every step of
\* discovery, a failed query included, changes the queried account only and
\* moves on to the next account or, after the last one, builds the catalog
\* from the agents of all accounts and starts serving.
C38_DiscoverySurvivesFailures ==
  [][phase = "discover" =>
       LET a == disc IN
       /\ \A outcome \in CallOutcomes \ {Ok} :
            LET after == AfterQuery(a, accounts[a], outcome) IN
            /\ after.agents = << >>
            /\ after.error_count = accounts[a].error_count
            /\ after.is_valid =
                 ( accounts[a].is_valid
                   /\ ~(outcome.kind = "fail" /\ outcome.status \in {401, 403}) )
       /\ accounts'[a] \in
            { AfterQuery(a, accounts[a], outcome) : outcome \in CallOutcomes }
       /\ \A b \in Accs \ {a} : accounts'[b] = accounts[b]
       /\ \A b \in Accs : accounts'[b].error_count = 0
       /\ IF a < NumAccs
          THEN phase' = "discover" /\ disc' = a + 1
          ELSE /\ phase' = "serve"
               /\ AVAILABLE_MODELS' = AggregateAgents(AllAgents(accounts', 1), << >>)]_vars

\* the query of the first account was answered 401 or 403: the account is
\* invalid, without agents and without errors counted, and the catalog holds
\* the two models of the second account
C38_Witness ==
  /\ phase = "serve"
  /\ started = 0
  /\ accounts[1].agents = << >>
  /\ ~accounts[1].is_valid
  /\ accounts[1].error_count = 0
  /\ Len(accounts[2].agents) = 2
  /\ Len(AVAILABLE_MODELS) = 2

\* the accounts whose agents include the agent of that id
Owners(id) ==
  { a \in Accs : \E k \in 1..Len(accounts[a].agents) : accounts[a].agents[k].id = id }

\* C39 as stated: once discovery is over, every agent id a ModelRecord lists
\* is the id of an agent of exactly one account, and no ModelRecord has an
\* empty agent set.
C39_AgentOfExactlyOneAccount ==
  phase = "serve" =>
    \A i \in 1..Len(AVAILABLE_MODELS) :
      /\ AVAILABLE_MODELS[i].agents # << >>
      /\ \A k \in 1..Len(AVAILABLE_MODELS[i].agents) :
           Cardinality(Owners(AVAILABLE_MODELS[i].agents[k])) = 1

\* C39, amended: once discovery is over, no ModelRecord has an empty agent
\* set, and every agent id a ModelRecord lists is the id of an agent of at
\* least one account and is listed once for each account that has it, so of
\* exactly one account unless two accounts were answered with the same
\* agent.
C39_AgentOfSomeAccount ==
  phase = "serve" =>
    \A i \in 1..Len(AVAILABLE_MODELS) :
      LET listed == AVAILABLE_MODELS[i].agents IN
      /\ listed # << >>
      /\ \A k \in 1..Len(listed) :
           /\ Owners(listed[k]) # {}
           /\ Cardinality({ j \in 1..Len(listed) : listed[j] = listed[k] })
                = Cardinality(Owners(listed[k]))

\* a record that lists one agent of each of two accounts, and a record of a
\* single agent
C39_Witness ==
  /\ phase = "serve"
  /\ \E i, j \in 1..Len(AVAILABLE_MODELS) :
       /\ Len(AVAILABLE_MODELS[i].agents) = 2
       /\ Owners(AVAILABLE_MODELS[i].agents[1]) = {1}
       /\ Owners(AVAILABLE_MODELS[i].agents[2]) = {2}
       /\ Len(AVAILABLE_MODELS[j].agents) = 1

----------------------------------------------------------------------------
(* The events of a success stream *)

\* C40: the generator of a success stream fixes its stream id and its
\* created timestamp, the clock's seconds, when the stream starts and never
\* changes them, and the JSON document of every chunk of the stream (the
\* role chunk, every content chunk and the stop chunk) carries that id and
\* that timestamp, whatever the time at which the chunk is produced.
C40_OneIdOneTimestamp ==
  [][stream.gen.gen = "retoolStreamGenerator" =>
       /\ (stream.pump = "unstarted" /\ stream'.pump # "unstarted") =>
            /\ stream'.streamId \in UUIDs
            /\ stream'.created = now \div 1000
       /\ stream.pump # "unstarted" =>
            /\ stream'.streamId = stream.streamId
            /\ stream'.created = stream.created
       /\ Len(stream'.headers) = Len(stream'.enqueued)
       /\ \A k \in 1..Len(stream'.headers) :
            /\ stream'.headers[k].id = stream'.streamId
            /\ stream'.headers[k].created = stream'.created]_vars

\* "Hello world" streamed to its end in five chunks while the clock moved
\* on to another second after the stream had started
C40_Witness ==
  /\ stream.gen.gen = "retoolStreamGenerator"
  /\ stream.gen.text = HelloWorld
  /\ stream.pump = "done"
  /\ ~stream.cancelled
  /\ Len(stream.headers) = 5
  /\ stream.headers[1] = stream.headers[5]
  /\ stream.created # now \div 1000

====
